---- MODULE Spec2Model ----
(***************************************************************************)
(* normal-notepad: the cursor-position -> (line, column) translation of     *)
(* src/line_column.rs and the encoding-aware load/save of src/file_io.rs.   *)
(*                                                                          *)
(* A text (Rust &str / String) is a sequence of Unicode scalar values, each *)
(* an integer code point.  A byte buffer is a sequence of 0..255, a UTF-16  *)
(* buffer a sequence of 0..65535.                                           *)
(***************************************************************************)
EXTENDS Integers, Sequences, FiniteSets

VARIABLES
    text,         \* calculate_line_column: the argument `text`
    cursor_pos,   \* calculate_line_column: the argument `cursor_pos`
    lc_result,    \* calculate_line_column: what the call returned
    file,         \* the file at `path` on disk
    save_result,  \* the most recent save_file call and what it returned
    load_result,  \* the most recent load_file call and what it returned
    edit_text,            \* main.rs: the UTF-16 units held by the edit control
    CURRENT_FILE,         \* main.rs: static CURRENT_FILE
    CURRENT_ENCODING,     \* main.rs: static CURRENT_ENCODING
    SAVED_CONTENT,        \* main.rs: static SAVED_CONTENT
    LAST_MODIFIED_STATE,  \* main.rs: static LAST_MODIFIED_STATE
    title,                \* main.rs: the text of the main window
    pc,                   \* main.rs: where the message loop of main() stands
    last_cmd,             \* main.rs: the message handled last and how it went
    LAST_STATUS,          \* status_bar.rs: static LAST_STATUS
    char_hwnd,            \* status bar: the text of the character-count window
    pos_hwnd,             \* status bar: the text of the line/column window
    encoding_hwnd,        \* status bar: the text of the encoding window
    zoom_hwnd,            \* status bar: the text of the zoom window
    status_call,          \* update_status_bar: the arguments of the last call
    STATUSBAR_VISIBLE,    \* main.rs: static STATUSBAR_VISIBLE
    held,                 \* the mutexes whose guard the UI thread holds
    ui_stack,             \* the UI thread's call stack: handlers and positions
    ui_blocked            \* the UI thread has locked a mutex it holds

vars == <<text, cursor_pos, lc_result, file, save_result, load_result,
          edit_text, CURRENT_FILE, CURRENT_ENCODING, SAVED_CONTENT,
          LAST_MODIFIED_STATE, title, pc, last_cmd,
          LAST_STATUS, char_hwnd, pos_hwnd, encoding_hwnd, zoom_hwnd, status_call,
          STATUSBAR_VISIBLE, held, ui_stack, ui_blocked>>

lc_vars == <<text, cursor_pos, lc_result>>
io_vars == <<file, save_result, load_result>>
doc_vars == <<edit_text, CURRENT_FILE, CURRENT_ENCODING, SAVED_CONTENT,
              LAST_MODIFIED_STATE, title>>
status_vars == <<LAST_STATUS, char_hwnd, pos_hwnd, encoding_hwnd, zoom_hwnd, status_call>>
lock_vars == <<STATUSBAR_VISIBLE, held, ui_stack, ui_blocked>>
app_vars == <<edit_text, CURRENT_FILE, CURRENT_ENCODING, SAVED_CONTENT,
              LAST_MODIFIED_STATE, title, pc, last_cmd, status_vars, lock_vars>>

(***************************************************************************)
(* Bounds of the model.                                                     *)
(***************************************************************************)
MaxTextLen == 4       \* scalar values in a text given to calculate_line_column
MaxFileLen == 4       \* bytes in a file found on disk before any save
MaxContentLen == 2    \* scalar values in a text given to save_file
MaxEditLen == 1       \* UTF-16 units typed or pasted into the edit control

(***************************************************************************)
(* Characters.                                                              *)
(***************************************************************************)
NUL == 0            \* '\0'
LF == 10            \* '\n'
CR == 13            \* '\r'
BmpMax == 65535     \* '\u{FFFF}'

RECURSIVE SeqsUpTo(_, _)
SeqsUpTo(S, n) ==
    IF n = 0 THEN {<<>>}
    ELSE LET shorter == SeqsUpTo(S, n - 1)
         IN  shorter \cup {Append(s, x) : s \in {t \in shorter : Len(t) = n - 1}, x \in S}

(***************************************************************************)
(* src/line_column.rs                                                       *)
(***************************************************************************)

\* ChUtf16Len as it would be if every scalar value took one code unit.
ChUtf16LenNarrow(ch) == 1

\* let ch_utf16_len = if ch > '\u{FFFF}' { 2 } else { 1 };
ChUtf16Len(ch) == IF ch > BmpMax THEN 2 ELSE 1

\* LCStart as it would be with 0-based counters.
LCStartZeroBased == [line |-> 0, col |-> 0, utf16_pos |-> 0, next |-> 1, done |-> FALSE]

\* The locals of calculate_line_column before the loop; `next` is the index
\* of the scalar value chars_iter.next() yields.
LCStart == [line |-> 1, col |-> 1, utf16_pos |-> 0, next |-> 1, done |-> FALSE]

\* CrArm as it would be without the peek: the LF after a CR is left to the
\* next pass, which takes it for a line break of its own.
CrArmNoSkip(t, cursor, s) ==
    LET pos == s.utf16_pos + ChUtf16Len(CR)
    IN  [line |-> s.line + 1, col |-> 1, utf16_pos |-> pos, next |-> s.next + 1,
         done |-> pos >= cursor]

\* The arm `if ch == '\r'` of the loop body, ch = t[s.next].
CrArm(t, cursor, s) ==
    LET peekLf == s.next + 1 <= Len(t) /\ t[s.next + 1] = LF
        pos == s.utf16_pos + ChUtf16Len(CR) + (IF peekLf THEN 1 ELSE 0)
    IN  [line |-> s.line + 1, col |-> 1, utf16_pos |-> pos,
         next |-> s.next + (IF peekLf THEN 2 ELSE 1),
         done |-> pos >= cursor]

\* LfArm as it would be without `line += 1`.
LfArmSameLine(t, cursor, s) ==
    LET pos == s.utf16_pos + ChUtf16Len(LF)
    IN  [line |-> s.line, col |-> 1, utf16_pos |-> pos, next |-> s.next + 1,
         done |-> pos >= cursor]

\* LfArm as it would be without `col = 1`.
LfArmKeepCol(t, cursor, s) ==
    LET pos == s.utf16_pos + ChUtf16Len(LF)
    IN  [line |-> s.line + 1, col |-> s.col, utf16_pos |-> pos, next |-> s.next + 1,
         done |-> pos >= cursor]

\* The arm `else if ch == '\n'`.
LfArm(t, cursor, s) ==
    LET pos == s.utf16_pos + ChUtf16Len(LF)
    IN  [line |-> s.line + 1, col |-> 1, utf16_pos |-> pos, next |-> s.next + 1,
         done |-> pos >= cursor]

\* RegularArm as it would be if it checked the cursor before `col += 1`: the
\* character that reaches the cursor is not counted.
RegularArmCheckFirst(t, cursor, s) ==
    LET pos == s.utf16_pos + ChUtf16Len(t[s.next])
    IN  [line |-> s.line, col |-> IF pos >= cursor THEN s.col ELSE s.col + 1,
         utf16_pos |-> pos, next |-> s.next + 1, done |-> pos >= cursor]

\* The arm `else if ch != '\0'` (a regular character).
RegularArm(t, cursor, s) ==
    LET pos == s.utf16_pos + ChUtf16Len(t[s.next])
    IN  [line |-> s.line, col |-> s.col + 1, utf16_pos |-> pos, next |-> s.next + 1,
         done |-> pos >= cursor]

\* NulArm as it would be if a NUL were counted like any other character.
NulArmCounts(t, cursor, s) ==
    LET pos == s.utf16_pos + ChUtf16Len(NUL)
    IN  [line |-> s.line, col |-> s.col + 1, utf16_pos |-> pos, next |-> s.next + 1,
         done |-> pos >= cursor]

\* The arm `else` (the null terminator): no column, no break check.
NulArm(t, cursor, s) ==
    [line |-> s.line, col |-> s.col, utf16_pos |-> s.utf16_pos + ChUtf16Len(NUL),
     next |-> s.next + 1, done |-> FALSE]

\* LCStep as it would be with `utf16_pos > cursor_pos` at the loop's head.
LCStepStrict(t, cursor, s) ==
    IF s.next > Len(t) THEN [s EXCEPT !.done = TRUE]
    ELSE IF s.utf16_pos > cursor THEN [s EXCEPT !.done = TRUE, !.next = s.next + 1]
    ELSE IF t[s.next] = CR THEN CrArm(t, cursor, s)
    ELSE IF t[s.next] = LF THEN LfArm(t, cursor, s)
    ELSE IF t[s.next] # NUL THEN RegularArm(t, cursor, s)
    ELSE NulArm(t, cursor, s)

\* LCStep as it would be if the loop ran on the cursor alone and read past the
\* end of the text as padding, one unit a pass.
LCStepPastEnd(t, cursor, s) ==
    IF s.utf16_pos >= cursor THEN [s EXCEPT !.done = TRUE, !.next = s.next + 1]
    ELSE IF s.next > Len(t) THEN NulArm(t, cursor, s)
    ELSE IF t[s.next] = CR THEN CrArm(t, cursor, s)
    ELSE IF t[s.next] = LF THEN LfArm(t, cursor, s)
    ELSE IF t[s.next] # NUL THEN RegularArm(t, cursor, s)
    ELSE NulArm(t, cursor, s)

\* One pass of `while let Some(ch) = chars_iter.next() { ... }`.
LCStep(t, cursor, s) ==
    IF s.next > Len(t) THEN [s EXCEPT !.done = TRUE]
    ELSE IF s.utf16_pos >= cursor THEN [s EXCEPT !.done = TRUE, !.next = s.next + 1]
    ELSE IF t[s.next] = CR THEN CrArm(t, cursor, s)
    ELSE IF t[s.next] = LF THEN LfArm(t, cursor, s)
    ELSE IF t[s.next] # NUL THEN RegularArm(t, cursor, s)
    ELSE NulArm(t, cursor, s)

RECURSIVE LCLoop(_, _, _)
LCLoop(t, cursor, s) ==
    IF s.done THEN s ELSE LCLoop(t, cursor, LCStep(t, cursor, s))

\* The number of times the loop's body runs: every pass but the one in which
\* chars_iter.next() returns None.
RECURSIVE LCPasses(_, _, _)
LCPasses(t, cursor, s) ==
    IF s.done THEN 0
    ELSE LET after == LCStep(t, cursor, s)
         IN  (IF s.next <= Len(t) \/ ~after.done THEN 1 ELSE 0) + LCPasses(t, cursor, after)

\* calculate_line_column as it would be if the offset left over at the end of
\* the text were added to the column.
calculate_line_column_unclamped(t, cursor) ==
    LET s == LCLoop(t, cursor, LCStart)
    IN  <<s.line, s.col + (IF cursor > s.utf16_pos THEN cursor - s.utf16_pos ELSE 0)>>

\* pub fn calculate_line_column(text: &str, cursor_pos: i32) -> (i32, i32)
calculate_line_column(t, cursor) ==
    LET s == LCLoop(t, cursor, LCStart) IN <<s.line, s.col>>

(***************************************************************************)
(* src/file_io.rs: the conversions save_file and load_file call.            *)
(***************************************************************************)

Encodings == {"Utf8", "Utf8Bom", "Utf16Le", "Utf16Be", "ShiftJis", "Auto"}

RECURSIVE Flatten(_)
Flatten(ss) == IF ss = <<>> THEN <<>> ELSE Head(ss) \o Flatten(Tail(ss))

\* bytes[start..] for a 0-based start <= bytes.len()
SliceFrom(bytes, start) == SubSeq(bytes, start + 1, Len(bytes))

\* bytes.starts_with(&prefix)
starts_with(bytes, prefix) ==
    Len(bytes) >= Len(prefix) /\ SubSeq(bytes, 1, Len(prefix)) = prefix

\* The UTF-8 encoding of one scalar value, as a Rust str holds it.
Utf8Bytes(ch) ==
    IF ch < 128 THEN <<ch>>
    ELSE IF ch < 2048 THEN <<192 + (ch \div 64), 128 + (ch % 64)>>
    ELSE IF ch < 65536
         THEN <<224 + (ch \div 4096), 128 + ((ch \div 64) % 64), 128 + (ch % 64)>>
    ELSE <<240 + (ch \div 262144), 128 + ((ch \div 4096) % 64),
           128 + ((ch \div 64) % 64), 128 + (ch % 64)>>

\* content.as_bytes(): the UTF-8 bytes of a str.
as_bytes(content) == Flatten([i \in 1..Len(content) |-> Utf8Bytes(content[i])])

\* The UTF-16 code units of one scalar value: a surrogate pair above U+FFFF.
Utf16Units(ch) ==
    IF ch > BmpMax
    THEN <<55296 + ((ch - 65536) \div 1024), 56320 + ((ch - 65536) % 1024)>>
    ELSE <<ch>>

\* content.encode_utf16().collect()
encode_utf16(content) == Flatten([i \in 1..Len(content) |-> Utf16Units(content[i])])

InRange(bytes, i, lo, hi) == i <= Len(bytes) /\ bytes[i] >= lo /\ bytes[i] <= hi
IsCont(bytes, i) == InRange(bytes, i, 128, 191)

\* The length of the well-formed UTF-8 sequence that starts at bytes[i], 0 when
\* there is none (overlong forms, surrogates and values above U+10FFFF are
\* ill-formed, as String::from_utf8 has it).
Utf8SeqLen(bytes, i) ==
    LET x == bytes[i] IN
    IF x < 128 THEN 1
    ELSE IF x >= 194 /\ x <= 223 /\ IsCont(bytes, i + 1) THEN 2
    ELSE IF x = 224 /\ InRange(bytes, i + 1, 160, 191) /\ IsCont(bytes, i + 2) THEN 3
    ELSE IF ((x >= 225 /\ x <= 236) \/ x = 238 \/ x = 239)
            /\ IsCont(bytes, i + 1) /\ IsCont(bytes, i + 2) THEN 3
    ELSE IF x = 237 /\ InRange(bytes, i + 1, 128, 159) /\ IsCont(bytes, i + 2) THEN 3
    ELSE IF x = 240 /\ InRange(bytes, i + 1, 144, 191)
            /\ IsCont(bytes, i + 2) /\ IsCont(bytes, i + 3) THEN 4
    ELSE IF x >= 241 /\ x <= 243
            /\ IsCont(bytes, i + 1) /\ IsCont(bytes, i + 2) /\ IsCont(bytes, i + 3) THEN 4
    ELSE IF x = 244 /\ InRange(bytes, i + 1, 128, 143)
            /\ IsCont(bytes, i + 2) /\ IsCont(bytes, i + 3) THEN 4
    ELSE 0

\* The scalar value of the n-byte sequence at bytes[i].
Utf8Scalar(bytes, i, n) ==
    IF n = 1 THEN bytes[i]
    ELSE IF n = 2 THEN (bytes[i] - 192) * 64 + (bytes[i + 1] - 128)
    ELSE IF n = 3
         THEN (bytes[i] - 224) * 4096 + (bytes[i + 1] - 128) * 64 + (bytes[i + 2] - 128)
    ELSE (bytes[i] - 240) * 262144 + (bytes[i + 1] - 128) * 4096
         + (bytes[i + 2] - 128) * 64 + (bytes[i + 3] - 128)

RECURSIVE Utf8Decode(_, _, _)
Utf8Decode(bytes, i, acc) ==
    IF i > Len(bytes) THEN [ok |-> TRUE, content |-> acc]
    ELSE LET n == Utf8SeqLen(bytes, i) IN
         IF n = 0 THEN [ok |-> FALSE, content |-> <<>>]
         ELSE Utf8Decode(bytes, i + n, Append(acc, Utf8Scalar(bytes, i, n)))

\* String::from_utf8(bytes): strict, Err on any ill-formed sequence.
from_utf8(bytes) == Utf8Decode(bytes, 1, <<>>)

IsHighSurrogate(u) == u >= 55296 /\ u <= 56319
IsLowSurrogate(u) == u >= 56320 /\ u <= 57343

RECURSIVE Utf16Decode(_, _, _)
Utf16Decode(units, i, acc) ==
    IF i > Len(units) THEN acc
    ELSE IF IsHighSurrogate(units[i]) /\ i + 1 <= Len(units) /\ IsLowSurrogate(units[i + 1])
         THEN Utf16Decode(units, i + 2,
                  Append(acc, 65536 + (units[i] - 55296) * 1024 + (units[i + 1] - 56320)))
    ELSE IF IsHighSurrogate(units[i]) \/ IsLowSurrogate(units[i])
         THEN Utf16Decode(units, i + 1, Append(acc, 65533))
    ELSE Utf16Decode(units, i + 1, Append(acc, units[i]))

\* String::from_utf16_lossy(&units): an unpaired surrogate becomes U+FFFD.
from_utf16_lossy(units) == Utf16Decode(units, 1, <<>>)

\* bytes.chunks_exact(2).map(|chunk| u16::from_le_bytes([chunk[0], chunk[1]]))
chunks_le(bytes) ==
    [k \in 1..(Len(bytes) \div 2) |-> bytes[2 * k - 1] + 256 * bytes[2 * k]]

\* bytes.chunks_exact(2).map(|chunk| u16::from_be_bytes([chunk[0], chunk[1]]))
chunks_be(bytes) ==
    [k \in 1..(Len(bytes) \div 2) |-> 256 * bytes[2 * k - 1] + bytes[2 * k]]

\* words_le as it would be with the two pushes in the other order.
words_le_swapped(units) ==
    Flatten([k \in 1..Len(units) |-> <<units[k] \div 256, units[k] % 256>>])

\* for &word in &utf16 { bytes.push((word & 0xFF) as u8); bytes.push((word >> 8) as u8); }
words_le(units) == Flatten([k \in 1..Len(units) |-> <<units[k] % 256, units[k] \div 256>>])

\* for &word in &utf16 { bytes.push((word >> 8) as u8); bytes.push((word & 0xFF) as u8); }
words_be(units) == Flatten([k \in 1..Len(units) |-> <<units[k] \div 256, units[k] % 256>>])

(***************************************************************************)
(* The system ANSI code page, GetACP(), taken to be 932 (the tag is named   *)
(* ShiftJis).  Of its double-byte table the model holds the one character   *)
(* its alphabets use (82 A0 = U+3042); every other double-byte code decodes *)
(* as the code page's default character U+30FB, every other character       *)
(* encodes as its default byte '?'.                                         *)
(***************************************************************************)
IsLeadByte(x) == (x >= 129 /\ x <= 159) \/ (x >= 224 /\ x <= 252)
IsTrailByte(x) == (x >= 64 /\ x <= 126) \/ (x >= 128 /\ x <= 252)

RECURSIVE AnsiDecode(_, _, _)
AnsiDecode(bytes, i, acc) ==
    IF i > Len(bytes) THEN acc
    ELSE LET x == bytes[i] IN
         IF x <= 128 THEN AnsiDecode(bytes, i + 1, Append(acc, x))
         ELSE IF x = 160 THEN AnsiDecode(bytes, i + 1, Append(acc, 63728))
         ELSE IF x >= 161 /\ x <= 223
              THEN AnsiDecode(bytes, i + 1, Append(acc, 65377 + (x - 161)))
         ELSE IF x >= 253 THEN AnsiDecode(bytes, i + 1, Append(acc, 63729 + (x - 253)))
         ELSE IF i + 1 <= Len(bytes) /\ IsTrailByte(bytes[i + 1])
              THEN AnsiDecode(bytes, i + 2,
                       Append(acc, IF x = 130 /\ bytes[i + 1] = 160 THEN 12354 ELSE 12539))
         ELSE AnsiDecode(bytes, i + 1, Append(acc, 12539))

\* MultiByteToWideChar(code_page, 0, &bytes, ..): the UTF-16 buffer it fills;
\* the `size` it returns is the buffer's length, 0 for an empty input.
MultiByteToWideChar(bytes) == AnsiDecode(bytes, 1, <<>>)

AnsiBytes(u) ==
    IF u < 128 THEN <<u>>
    ELSE IF u >= 65377 /\ u <= 65439 THEN <<161 + (u - 65377)>>
    ELSE IF u = 12354 THEN <<130, 160>>
    ELSE <<63>>

\* WideCharToMultiByte(code_page, 0, &utf16, ..): the byte buffer it fills;
\* the `size` it returns is the buffer's length, 0 for an empty input.
WideCharToMultiByte(units) == Flatten([k \in 1..Len(units) |-> AnsiBytes(units[k])])

(***************************************************************************)
(* src/file_io.rs: save_file and load_file.                                 *)
(***************************************************************************)

\* The file at `path`: absent, or present with its bytes.
NoFile == [exists |-> FALSE, bytes |-> <<>>]
FileOf(bytes) == [exists |-> TRUE, bytes |-> bytes]

\* fs::write(path, bytes): the file is created or replaced whole, or the
\* write fails (writable = FALSE) and the file is left as it was.
fs_write(f, bytes, writable) ==
    IF writable THEN [ok |-> TRUE, file |-> FileOf(bytes)]
    ELSE [ok |-> FALSE, file |-> f]

BOM_UTF8 == <<239, 187, 191>>     \* [0xEF, 0xBB, 0xBF]
BOM_UTF16LE == <<255, 254>>       \* [0xFF, 0xFE]
BOM_UTF16BE == <<254, 255>>       \* [0xFE, 0xFF]

\* pub fn save_file(path, content, encoding) -> Result<(), Box<dyn Error>>:
\* whether it returned Ok(()), and the file it leaves.
save_file(f, content, encoding, writable) ==
    IF encoding \in {"Utf8", "Auto"} THEN fs_write(f, as_bytes(content), writable)
    ELSE IF encoding = "Utf8Bom"
         THEN fs_write(f, BOM_UTF8 \o as_bytes(content), writable)
    ELSE IF encoding = "Utf16Le"
         THEN fs_write(f, BOM_UTF16LE \o words_le(encode_utf16(content)), writable)
    ELSE IF encoding = "Utf16Be"
         THEN fs_write(f, BOM_UTF16BE \o words_be(encode_utf16(content)), writable)
    ELSE LET buffer == WideCharToMultiByte(encode_utf16(content))
         IN  IF Len(buffer) > 0 THEN fs_write(f, buffer, writable)
             ELSE [ok |-> TRUE, file |-> f]

\* What load_file returns: Ok((content, encoding)) or Err(..), the error being
\* the failed read ("io") or the failed strict UTF-8 validation ("utf8").
LoadOk(content, encoding) ==
    [ok |-> TRUE, content |-> content, encoding |-> encoding, err |-> "none"]
LoadErr(kind) == [ok |-> FALSE, content |-> <<>>, encoding |-> "none", err |-> kind]

\* String::from_utf8(bytes)? followed by Ok((content, encoding))
Utf8Strict(bytes, encoding) ==
    LET r == from_utf8(bytes)
    IN  IF r.ok THEN LoadOk(r.content, encoding) ELSE LoadErr("utf8")

\* The arm FileEncoding::Utf8 => fs::read_to_string(path)?
LoadUtf8(bytes) == Utf8Strict(bytes, "Utf8")

\* LoadUtf8Bom as it would be if a failed validation fell back to the ANSI
\* code page, as Auto does.
LoadUtf8BomFallback(bytes) ==
    LET body == IF starts_with(bytes, BOM_UTF8) THEN SliceFrom(bytes, 3) ELSE bytes
        r == from_utf8(body)
        buffer == MultiByteToWideChar(body)
    IN  IF r.ok THEN LoadOk(r.content, "Utf8Bom")
        ELSE LoadOk(from_utf16_lossy(buffer), "Utf8Bom")

\* LoadUtf8Bom as it would be if it decoded the whole buffer, BOM included.
LoadUtf8BomKeep(bytes) ==
    LET r == from_utf8(bytes)
    IN  IF r.ok THEN LoadOk(r.content, "Utf8Bom") ELSE LoadErr("utf8")

\* The arm FileEncoding::Utf8Bom
LoadUtf8Bom(bytes) ==
    IF starts_with(bytes, BOM_UTF8) THEN Utf8Strict(SliceFrom(bytes, 3), "Utf8Bom")
    ELSE Utf8Strict(bytes, "Utf8Bom")

\* LoadUtf16Le as it would be with the strict String::from_utf16, which
\* fails on an unpaired surrogate.
LoadUtf16LeStrict(bytes) ==
    LET start == IF starts_with(bytes, BOM_UTF16LE) THEN 2 ELSE 0
        units == chunks_le(SliceFrom(bytes, start))
    IN  IF \E k \in 1..Len(units) :
               /\ IsHighSurrogate(units[k]) \/ IsLowSurrogate(units[k])
               /\ ~(IsHighSurrogate(units[k]) /\ k < Len(units)
                        /\ IsLowSurrogate(units[k + 1]))
               /\ ~(IsLowSurrogate(units[k]) /\ k > 1 /\ IsHighSurrogate(units[k - 1]))
        THEN LoadErr("utf16")
        ELSE LoadOk(from_utf16_lossy(units), "Utf16Le")

\* The arm FileEncoding::Utf16Le
LoadUtf16Le(bytes) ==
    LET start == IF starts_with(bytes, BOM_UTF16LE) THEN 2 ELSE 0
    IN  LoadOk(from_utf16_lossy(chunks_le(SliceFrom(bytes, start))), "Utf16Le")

\* LoadUtf16Be as it would be if it always skipped two bytes.
LoadUtf16BeAlwaysSkip(bytes) ==
    LoadOk(from_utf16_lossy(chunks_be(SliceFrom(bytes, IF Len(bytes) >= 2 THEN 2 ELSE 0))),
           "Utf16Be")

\* The arm FileEncoding::Utf16Be
LoadUtf16Be(bytes) ==
    LET start == IF starts_with(bytes, BOM_UTF16BE) THEN 2 ELSE 0
    IN  LoadOk(from_utf16_lossy(chunks_be(SliceFrom(bytes, start))), "Utf16Be")

\* The arm FileEncoding::ShiftJis, and the ANSI fallback of Auto
LoadAnsi(bytes) ==
    LET buffer == MultiByteToWideChar(bytes)
    IN  IF Len(buffer) > 0 THEN LoadOk(from_utf16_lossy(buffer), "ShiftJis")
        ELSE LoadOk(<<>>, "ShiftJis")

\* LoadAuto as it would be without the two UTF-16 BOM checks.
LoadAutoNoUtf16(bytes) ==
    IF starts_with(bytes, BOM_UTF8)
    THEN Utf8Strict(SliceFrom(bytes, 3), "Utf8Bom")
    ELSE IF from_utf8(bytes).ok
    THEN LoadOk(from_utf8(bytes).content, "Utf8")
    ELSE LoadAnsi(bytes)

\* The arm FileEncoding::Auto
LoadAuto(bytes) ==
    IF starts_with(bytes, BOM_UTF16LE)
    THEN LoadOk(from_utf16_lossy(chunks_le(SliceFrom(bytes, 2))), "Utf16Le")
    ELSE IF starts_with(bytes, BOM_UTF16BE)
    THEN LoadOk(from_utf16_lossy(chunks_be(SliceFrom(bytes, 2))), "Utf16Be")
    ELSE IF starts_with(bytes, BOM_UTF8)
    THEN Utf8Strict(SliceFrom(bytes, 3), "Utf8Bom")
    ELSE IF from_utf8(bytes).ok
    THEN LoadOk(from_utf8(bytes).content, "Utf8")
    ELSE LoadAnsi(bytes)

\* pub fn load_file(path, encoding) -> Result<(String, FileEncoding), Box<dyn Error>>
load_file(f, encoding) ==
    IF ~f.exists THEN LoadErr("io")
    ELSE IF encoding = "Utf8" THEN LoadUtf8(f.bytes)
    ELSE IF encoding = "Utf8Bom" THEN LoadUtf8Bom(f.bytes)
    ELSE IF encoding = "Utf16Le" THEN LoadUtf16Le(f.bytes)
    ELSE IF encoding = "Utf16Be" THEN LoadUtf16Be(f.bytes)
    ELSE IF encoding = "ShiftJis" THEN LoadAnsi(f.bytes)
    ELSE LoadAuto(f.bytes)

(***************************************************************************)
(* The inputs.                                                              *)
(***************************************************************************)

\* Scalar values of a text given to calculate_line_column: NUL, LF, CR, 'A',
\* U+FFFF (the last one-unit value) and U+1F600 (a surrogate pair).
LCChars == {NUL, LF, CR, 65, BmpMax, 128512}
LCTexts == SeqsUpTo(LCChars, MaxTextLen)
LCOffsets == (0 - 1)..(2 * MaxTextLen + 1)

\* Bytes of a file found on disk: 'A', the BOM bytes, and the high bytes D8 and
\* DC of a high and a low surrogate.
FileBytes == {65, 187, 191, 216, 220, 239, 254, 255}
FilesOnDisk == {NoFile} \cup {FileOf(b) : b \in SeqsUpTo(FileBytes, MaxFileLen)}

\* The file at `path` before a save: absent, empty, or holding "A".
OldFiles == {NoFile, FileOf(<<>>), FileOf(<<65>>)}

\* Scalar values of a text given to save_file: 'A', U+3042, U+FEFF, U+1F600.
ContentChars == {65, 12354, 65279, 128512}
Contents == SeqsUpTo(ContentChars, MaxContentLen)

NoSave == [called |-> FALSE, ok |-> FALSE, content |-> <<>>, encoding |-> "none"]
NoLoad == [called |-> FALSE, requested |-> "none", result |-> LoadErr("none")]

\* The UI thread outside every handler: no guard held, STATUSBAR_VISIBLE as
\* declared (main.rs:29).
NoGuards ==
    /\ STATUSBAR_VISIBLE = TRUE
    /\ held = {}
    /\ ui_stack = <<>>
    /\ ui_blocked = FALSE

\* No call of update_status_bar yet.
NoStatusCall == [called |-> FALSE, current_encoding |-> "none", current_status |-> <<>>]

\* The status bar where no window exists: LAST_STATUS as declared, no text.
NoStatusBar ==
    /\ LAST_STATUS = <<>>
    /\ char_hwnd = <<>>
    /\ pos_hwnd = <<>>
    /\ encoding_hwnd = ""
    /\ zoom_hwnd = <<>>
    /\ status_call = NoStatusCall

\* window_proc, WM_CREATE: the status bar's windows are created without text;
\* the encoding window is then given "UTF-8" and the zoom window "100%".
CreatedStatusBar ==
    /\ LAST_STATUS = <<>>
    /\ char_hwnd = <<>>
    /\ pos_hwnd = <<>>
    /\ encoding_hwnd = "UTF-8"
    /\ zoom_hwnd = <<100>>
    /\ status_call = NoStatusCall

\* The application's state where no window exists: the statics as declared
\* (main.rs:25-31), for the specifications of the functions alone.
NoApp ==
    /\ NoStatusBar
    /\ NoGuards
    /\ edit_text = <<>>
    /\ CURRENT_FILE = "None"
    /\ CURRENT_ENCODING = "Utf8"
    /\ SAVED_CONTENT = <<>>
    /\ LAST_MODIFIED_STATE = FALSE
    /\ title = <<>>
    /\ pc = "none"
    /\ last_cmd = <<>>

(***************************************************************************)
(* calculate_line_column as a state machine: a call on any text and offset. *)
(***************************************************************************)
InitLC ==
    /\ text \in LCTexts
    /\ cursor_pos \in LCOffsets
    /\ lc_result = <<>>
    /\ file = NoFile
    /\ save_result = NoSave
    /\ load_result = NoLoad
    /\ NoApp

Locate ==
    /\ lc_result = <<>>
    /\ lc_result' = calculate_line_column(text, cursor_pos)
    /\ UNCHANGED <<text, cursor_pos, file, save_result, load_result>>
    /\ UNCHANGED app_vars

NextLC == Locate

SpecLC == InitLC /\ [][NextLC]_vars

(***************************************************************************)
(* load_file as a state machine: calls on a file of any bytes.              *)
(***************************************************************************)
InitLoad ==
    /\ file \in FilesOnDisk
    /\ save_result = NoSave
    /\ load_result = NoLoad
    /\ text = <<>>
    /\ cursor_pos = 0
    /\ lc_result = <<>>
    /\ NoApp

(***************************************************************************)
(* save_file and load_file as a state machine on one path.                  *)
(***************************************************************************)
InitIO ==
    /\ file \in OldFiles
    /\ save_result = NoSave
    /\ load_result = NoLoad
    /\ text = <<>>
    /\ cursor_pos = 0
    /\ lc_result = <<>>
    /\ NoApp

\* A call save_file(path, content, encoding).  A failed call is remembered
\* without its arguments.
SaveFile(content, encoding, writable) ==
    LET r == save_file(file, content, encoding, writable) IN
    /\ file' = r.file
    /\ save_result' = IF r.ok
                      THEN [called |-> TRUE, ok |-> TRUE, content |-> content,
                            encoding |-> encoding]
                      ELSE [called |-> TRUE, ok |-> FALSE, content |-> <<>>,
                            encoding |-> "none"]
    /\ load_result' = NoLoad
    /\ UNCHANGED lc_vars
    /\ UNCHANGED app_vars

\* A call load_file(path, encoding).
LoadFile(encoding) ==
    /\ load_result' = [called |-> TRUE, requested |-> encoding,
                       result |-> load_file(file, encoding)]
    /\ UNCHANGED <<file, save_result>>
    /\ UNCHANGED lc_vars
    /\ UNCHANGED app_vars

NextIO ==
    \/ \E content \in Contents, encoding \in Encodings, writable \in BOOLEAN :
           SaveFile(content, encoding, writable)
    \/ \E encoding \in Encodings : LoadFile(encoding)

SpecIO == InitIO /\ [][NextIO]_vars

NextLoad == \E encoding \in Encodings : LoadFile(encoding)

SpecLoad == InitLoad /\ [][NextLoad]_vars

(***************************************************************************)
(* Properties of calculate_line_column (checked under SpecLC).              *)
(* The offsets of the claims are UTF-16 indexes, counted here from the      *)
(* scalar values and not from the loop's own running position.              *)
(***************************************************************************)

Located == lc_result # <<>>

\* The UTF-16 index of the first code unit of t[i] (of the end, for i = Len(t) + 1).
RECURSIVE Utf16Index(_, _)
Utf16Index(t, i) ==
    IF i <= 1 THEN 0
    ELSE Utf16Index(t, i - 1) + (IF t[i - 1] >= 65536 THEN 2 ELSE 1)

Utf16Length(t) == Utf16Index(t, Len(t) + 1)

\* t[i] starts a line-break event: a CR (with the LF after it, if any), or an
\* LF that no CR precedes.
IsBreakStart(t, i) == t[i] = 13 \/ (t[i] = 10 /\ (i = 1 \/ t[i - 1] # 13))
IsCrLf(t, i) == i < Len(t) /\ t[i] = 13 /\ t[i + 1] = 10

\* The line-break events that start before the offset.
BreaksBefore(t, offset) ==
    {i \in 1..Len(t) : IsBreakStart(t, i) /\ Utf16Index(t, i) < offset}

\* The non-NUL, non-break scalar values of the offset's line whose first code
\* unit lies before the offset.
ColumnsBefore(t, offset) ==
    {i \in 1..Len(t) : /\ t[i] \notin {0, 10, 13}
                       /\ Utf16Index(t, i) < offset
                       /\ \A j \in BreaksBefore(t, offset) : j < i}

\* C2: a CRLF pair is atomic for cursor placement: with a CR at UTF-16 index p
\* followed by LF, the offsets p+1 and p+2 both give (L+1, 1), L being the line
\* that holds the CR; the pair raises the line by exactly 1.
C2_CrLfAtomic ==
    Located =>
        \A i \in 1..Len(text) :
            LET p == Utf16Index(text, i)
                L == 1 + Cardinality(BreaksBefore(text, p))
            IN  (IsCrLf(text, i) /\ cursor_pos \in {p + 1, p + 2})
                    => lc_result = <<L + 1, 1>>

C2_Witness ==
    /\ Located
    /\ \E i \in 2..Len(text) :
           /\ IsCrLf(text, i)
           /\ cursor_pos = Utf16Index(text, i) + 2
           /\ i + 2 <= Len(text)
           /\ lc_result[1] >= 2

\* C3 as stated: for a text with no CR and no LF and an offset k with
\* 0 <= k <= UTF-16 length, the result is line 1, column k+1.
C3_Original ==
    (/\ Located
     /\ \A i \in 1..Len(text) : text[i] \notin {10, 13}
     /\ 0 <= cursor_pos /\ cursor_pos <= Utf16Length(text))
        => lc_result = <<1, cursor_pos + 1>>

\* C3 as amended: for a text with no CR, no LF, no NUL and no character above
\* U+FFFF, and an offset k with 0 <= k <= UTF-16 length, the result is line 1,
\* column k+1.
C3_Amended ==
    (/\ Located
     /\ \A i \in 1..Len(text) : text[i] \notin {0, 10, 13} /\ text[i] <= 65535
     /\ 0 <= cursor_pos /\ cursor_pos <= Utf16Length(text))
        => lc_result = <<1, cursor_pos + 1>>

C3_Witness ==
    /\ Located
    /\ Len(text) >= 3
    /\ \A i \in 1..Len(text) : text[i] \notin {0, 10, 13} /\ text[i] <= 65535
    /\ cursor_pos = 2
    /\ lc_result = <<1, 3>>

\* C5: the line is 1 plus the number of line-break events (a CRLF pair, a CR
\* with no LF after it, an LF with no CR before it) whose first code unit is
\* before the offset, and an offset that a counted break reaches gives column 1.
C5_LineCountsBreaks ==
    Located =>
        /\ lc_result[1] = 1 + Cardinality(BreaksBefore(text, cursor_pos))
        /\ \A i \in BreaksBefore(text, cursor_pos) :
               cursor_pos <= Utf16Index(text, i) + (IF IsCrLf(text, i) THEN 2 ELSE 1)
                   => lc_result[2] = 1

C5_Witness ==
    /\ Located
    /\ Len(text) >= 3
    /\ SubSeq(text, 1, 3) = <<13, 13, 10>>
    /\ cursor_pos = 3
    /\ lc_result = <<3, 1>>

\* C6: a character above U+FFFF takes two code units of offset and one column:
\* the column is 1 plus the number of non-NUL, non-break scalar values of the
\* line that start before the offset, and an offset between the two surrogate
\* units gives what the offset after the pair gives.
C6_ColumnCountsScalars ==
    Located =>
        /\ lc_result[2] = 1 + Cardinality(ColumnsBefore(text, cursor_pos))
        /\ \A i \in 1..Len(text) :
               (text[i] > 65535 /\ cursor_pos = Utf16Index(text, i) + 1)
                   => lc_result = calculate_line_column(text, cursor_pos + 1)

C6_Witness ==
    /\ Located
    /\ \E i \in 2..Len(text) :
           /\ text[i] > 65535
           /\ text[i - 1] > 65535
           /\ cursor_pos = Utf16Index(text, i) + 1
           /\ i < Len(text)
           /\ lc_result[2] = i + 1

(***************************************************************************)
(* Properties of load_file on a file of any bytes (checked under SpecLoad). *)
(***************************************************************************)

\* load_file(path, encoding) has returned for a file that could be read.
Loaded(encoding) ==
    load_result.called /\ load_result.requested = encoding /\ file.exists

\* C1: load_file with Auto never fails on content: for every readable file it
\* returns Ok with some text and a resolved tag.
C1_AutoNeverFails ==
    Loaded("Auto") =>
        /\ load_result.result.ok
        /\ load_result.result.encoding \in Encodings \ {"Auto"}

\* C7: Auto detection applies its rules in a fixed priority, the first match
\* wins: FF FE resolves to Utf16Le, else FE FF to Utf16Be, else EF BB BF to
\* Utf8Bom with the BOM stripped, else a wholly valid UTF-8 buffer to Utf8,
\* else the buffer is decoded with the ANSI code page and resolves to ShiftJis.
C7_AutoPriority ==
    Loaded("Auto") =>
        LET b == file.bytes
            r == load_result.result
        IN  IF starts_with(b, <<255, 254>>)
            THEN r = LoadUtf16Le(b)
            ELSE IF starts_with(b, <<254, 255>>)
            THEN r = LoadUtf16Be(b)
            ELSE IF starts_with(b, <<239, 187, 191>>)
            THEN r.ok /\ r.encoding = "Utf8Bom" /\ as_bytes(r.content) = SliceFrom(b, 3)
            ELSE IF from_utf8(b).ok
            THEN r.ok /\ r.encoding = "Utf8" /\ as_bytes(r.content) = b
            ELSE r = LoadAnsi(b)

\* C8: an explicit strict request never falls back: load_file with Utf8 or
\* Utf8Bom returns an error whenever the bytes (less an optional leading
\* EF BB BF for Utf8Bom) are not valid UTF-8, and an Ok text is the UTF-8
\* decoding of those bytes, never the product of another codec.
C8_StrictNeverFallsBack ==
    \A encoding \in {"Utf8", "Utf8Bom"} :
        Loaded(encoding) =>
            LET b == file.bytes
                body == IF encoding = "Utf8Bom" /\ starts_with(b, <<239, 187, 191>>)
                        THEN SliceFrom(b, 3) ELSE b
                r == load_result.result
            IN  /\ r.ok <=> from_utf8(body).ok
                /\ ~r.ok => r = LoadErr("utf8")
                /\ r.ok => r.encoding = encoding /\ as_bytes(r.content) = body

C8_Witness ==
    /\ Loaded("Utf8Bom")
    /\ starts_with(file.bytes, <<239, 187, 191>>)
    /\ Len(file.bytes) = 4
    /\ ~from_utf8(SliceFrom(file.bytes, 3)).ok
    /\ ~load_result.result.ok

\* The 16-bit units of a UTF-16 file: an optional leading BOM and a trailing
\* odd byte left out.
Utf16Payload(b, encoding) ==
    LET bom == IF encoding = "Utf16Le" THEN <<255, 254>> ELSE <<254, 255>>
        rest == IF starts_with(b, bom) THEN SliceFrom(b, 2) ELSE b
    IN  [k \in 1..(Len(rest) \div 2) |->
            IF encoding = "Utf16Le" THEN rest[2 * k - 1] + 256 * rest[2 * k]
            ELSE 256 * rest[2 * k - 1] + rest[2 * k]]

IsSurrogate(u) == u >= 55296 /\ u <= 57343
PairedLow(u, k) == k > 1 /\ u[k] >= 56320 /\ u[k] <= 57343
                       /\ u[k - 1] >= 55296 /\ u[k - 1] <= 56319
PairedHigh(u, k) == k < Len(u) /\ PairedLow(u, k + 1)
Unpaired(u, k) == IsSurrogate(u[k]) /\ ~PairedLow(u, k) /\ ~PairedHigh(u, k)

\* The text of a unit sequence with each unpaired surrogate replaced by U+FFFD:
\* one scalar value per unit that is not the low half of a pair.
LossyText(u) ==
    LET kept == {k \in 1..Len(u) : ~PairedLow(u, k)}
        nth(j) == CHOOSE k \in kept : Cardinality({m \in kept : m <= k}) = j
    IN  [j \in 1..Cardinality(kept) |->
            LET k == nth(j)
            IN  IF Unpaired(u, k) THEN 65533
                ELSE IF PairedHigh(u, k)
                     THEN 65536 + (u[k] - 55296) * 1024 + (u[k + 1] - 56320)
                ELSE u[k]]

\* C10: permissive decodes never fail on content: load_file with Utf16Le,
\* Utf16Be or ShiftJis returns Ok for every readable file; unpaired surrogates
\* become U+FFFD, a trailing odd byte of a UTF-16 file is ignored, and a
\* zero-length ANSI conversion gives the empty string.
C10_PermissiveNeverFails ==
    \A encoding \in {"Utf16Le", "Utf16Be", "ShiftJis"} :
        Loaded(encoding) =>
            LET b == file.bytes
                r == load_result.result
            IN  /\ r.ok /\ r.encoding = encoding
                /\ \A i \in 1..Len(r.content) : ~IsSurrogate(r.content[i])
                /\ encoding # "ShiftJis" =>
                       /\ r.content = LossyText(Utf16Payload(b, encoding))
                       /\ Len(b) % 2 = 1 =>
                              r = load_file(FileOf(SubSeq(b, 1, Len(b) - 1)), encoding)
                /\ (encoding = "ShiftJis" /\ b = <<>>) => r.content = <<>>

C10_Witness ==
    /\ Loaded("Utf16Le")
    /\ Len(file.bytes) = 3
    /\ file.bytes[2] = 216
    /\ load_result.result = LoadOk(<<65533>>, "Utf16Le")

(***************************************************************************)
(* Properties of save_file followed by load_file (checked under SpecIO).    *)
(***************************************************************************)

\* save_file(path, content, encoding) returned Ok(()) and load_file(path,
\* requested) has been called on the file it left.
SavedThenLoaded(encoding, requested) ==
    /\ save_result.called /\ save_result.ok /\ save_result.encoding = encoding
    /\ load_result.called /\ load_result.requested = requested

\* C4: round trip: for T in {Utf8, Utf8Bom, Utf16Le, Utf16Be} and every text,
\* save_file(path, text, T) then load_file(path, T) returns exactly text and
\* the resolved tag T.
C4_RoundTrip ==
    \A T \in {"Utf8", "Utf8Bom", "Utf16Le", "Utf16Be"} :
        SavedThenLoaded(T, T) => load_result.result = LoadOk(save_result.content, T)

C4_Witness ==
    /\ SavedThenLoaded("Utf16Be", "Utf16Be")
    /\ save_result.content = <<65279, 128512>>
    /\ file.bytes = <<254, 255, 254, 255, 216, 61, 222, 0>>
    /\ load_result.result.ok

\* C9: saving a text as Utf16Le and loading the file with Auto returns the
\* identical text and the resolved tag Utf16Le.
C9_Utf16LeThenAuto ==
    SavedThenLoaded("Utf16Le", "Auto")
        => load_result.result = LoadOk(save_result.content, "Utf16Le")

C9_Witness ==
    /\ SavedThenLoaded("Utf16Le", "Auto")
    /\ save_result.content = <<65279, 128512>>
    /\ file.bytes = <<255, 254, 255, 254, 61, 216, 0, 222>>
    /\ load_result.result.encoding = "Utf16Le"

(***************************************************************************)
(* More properties of save_file (SpecIO) and load_file (SpecLoad).          *)
(***************************************************************************)

\* The bytes the claims give for a text in a tag ("Auto" is saved as UTF-8).
BytesFor(content, encoding) ==
    LET units == encode_utf16(content) IN
    IF encoding \in {"Utf8", "Auto"} THEN as_bytes(content)
    ELSE IF encoding = "Utf8Bom" THEN <<239, 187, 191>> \o as_bytes(content)
    ELSE IF encoding = "Utf16Le"
         THEN <<255, 254>> \o [j \in 1..(2 * Len(units)) |->
                  IF j % 2 = 1 THEN units[(j + 1) \div 2] % 256 ELSE units[j \div 2] \div 256]
    ELSE IF encoding = "Utf16Be"
         THEN <<254, 255>> \o [j \in 1..(2 * Len(units)) |->
                  IF j % 2 = 1 THEN units[(j + 1) \div 2] \div 256 ELSE units[j \div 2] % 256]
    ELSE WideCharToMultiByte(units)

\* C11: saving never silently does nothing: whenever save_file returns Ok(()),
\* the file at path exists and holds exactly the encoding of the content in the
\* requested tag, for every tag and every content (the empty text included).
C11_SaveAlwaysWrites ==
    (save_result.called /\ save_result.ok)
        => file = FileOf(BytesFor(save_result.content, save_result.encoding))

\* C12: save_file writes raw UTF-8 for Utf8 and Auto, EF BB BF + UTF-8 for
\* Utf8Bom, FF FE + low byte, high byte of each unit for Utf16Le, FE FF + high
\* byte, low byte of each unit for Utf16Be (2 + 2 * units bytes).
C12_ExactBytes ==
    (/\ save_result.called /\ save_result.ok
     /\ save_result.encoding \in {"Utf8", "Auto", "Utf8Bom", "Utf16Le", "Utf16Be"})
        => /\ file = FileOf(BytesFor(save_result.content, save_result.encoding))
           /\ save_result.encoding \in {"Utf16Le", "Utf16Be"}
                  => Len(file.bytes) = 2 + 2 * Len(encode_utf16(save_result.content))

C12_Witness ==
    /\ save_result.called /\ save_result.ok
    /\ save_result.encoding = "Utf16Le"
    /\ save_result.content = <<65, 128512>>
    /\ file.bytes = <<255, 254, 65, 0, 61, 216, 0, 222>>

\* C13: an explicit decode strips at most one leading BOM, and only when it is
\* there: Utf8Bom removes a leading EF BB BF, Utf16Le a leading FF FE, Utf16Be
\* a leading FE FF, each decodes from byte 0 otherwise, and the resolved tag is
\* the requested one.
C13_StripsOneBom ==
    \A encoding \in {"Utf8Bom", "Utf16Le", "Utf16Be"} :
        Loaded(encoding) =>
            LET b == file.bytes
                r == load_result.result
                bom == IF encoding = "Utf8Bom" THEN <<239, 187, 191>>
                       ELSE IF encoding = "Utf16Le" THEN <<255, 254>> ELSE <<254, 255>>
                body == IF starts_with(b, bom) THEN SliceFrom(b, Len(bom)) ELSE b
            IN  /\ r.ok => r.encoding = encoding
                /\ encoding = "Utf8Bom" =>
                       /\ r.ok <=> from_utf8(body).ok
                       /\ r.ok => as_bytes(r.content) = body
                /\ encoding # "Utf8Bom" =>
                       /\ r.ok
                       /\ Len(r.content) <= Len(body) \div 2
                       /\ r.content = LossyText(
                              [k \in 1..(Len(body) \div 2) |->
                                  IF encoding = "Utf16Le"
                                  THEN body[2 * k - 1] + 256 * body[2 * k]
                                  ELSE 256 * body[2 * k - 1] + body[2 * k]])

C13_Witness ==
    /\ Loaded("Utf16Be")
    /\ file.bytes = <<254, 255, 254, 255>>
    /\ load_result.result = LoadOk(<<65279>>, "Utf16Be")

(***************************************************************************)
(* More properties of calculate_line_column (SpecLC).                       *)
(***************************************************************************)

\* C15: an offset beyond the end of the text is clamped: for every offset >=
\* the UTF-16 length the result is that of the offset equal to the length.
C15_ClampedPastEnd ==
    (Located /\ cursor_pos >= Utf16Length(text))
        => lc_result = calculate_line_column(text, Utf16Length(text))

C15_Witness ==
    /\ Located
    /\ Len(text) >= 2
    /\ text[Len(text)] \notin {0, 10, 13}
    /\ cursor_pos > Utf16Length(text) + 1
    /\ lc_result[2] >= 2

\* C16: for every text and offset (negative and past the end included) the
\* line is >= 1 and the column is >= 1.
C16_OneIndexed ==
    Located => lc_result[1] >= 1 /\ lc_result[2] >= 1

C16_Witness ==
    /\ Located
    /\ cursor_pos < 0
    /\ Len(text) >= 1
    /\ lc_result = <<1, 1>>

\* The text without its i-th scalar value, and the offset in it that an
\* offset of the whole text corresponds to when that value takes one unit.
Without(t, i) == SubSeq(t, 1, i - 1) \o SubSeq(t, i + 1, Len(t))
OffsetWithout(t, i, offset) == IF offset > Utf16Index(t, i) THEN offset - 1 ELSE offset

\* C17: a NUL takes one unit of offset and adds no column and no line: with a
\* NUL taken out of the text and the offsets after it moved down by one, the
\* column of every offset is the same, and so is the line unless the NUL
\* stood between a CR and an LF (which are one break without it, two with it).
C17_NulIsInvisible ==
    Located =>
        \A i \in 1..Len(text) :
            text[i] = 0 =>
                LET r == calculate_line_column(Without(text, i),
                                               OffsetWithout(text, i, cursor_pos))
                    splits == i > 1 /\ i < Len(text) /\ text[i - 1] = 13 /\ text[i + 1] = 10
                IN  /\ lc_result[2] = r[2]
                    /\ ~splits => lc_result[1] = r[1]

C17_Witness ==
    /\ Located
    /\ Len(text) = 4
    /\ text[1] \notin {0, 10, 13}
    /\ text[2] = 0
    /\ text[3] = 0
    /\ text[4] \notin {0, 10, 13}
    /\ cursor_pos = Utf16Length(text)
    /\ lc_result = <<1, 3>>

\* C18: calculate_line_column(text, 0) is (1, 1) for every text, whatever its
\* first character.
C18_OffsetZero ==
    (Located /\ cursor_pos = 0) => lc_result = <<1, 1>>

C18_Witness ==
    /\ Located
    /\ cursor_pos = 0
    /\ Len(text) >= 2
    /\ text[1] = 13
    /\ text[2] = 10
    /\ lc_result = <<1, 1>>

\* C19: calculate_line_column is total: for every text and offset it ends
\* after at most one pass of the loop per scalar value and returns a pair of
\* integers.
C19_TerminatesInLenPasses ==
    Located =>
        /\ LCPasses(text, cursor_pos, LCStart) <= Len(text)
        /\ lc_result \in Int \X Int

C19_Witness ==
    /\ Located
    /\ Len(text) = MaxTextLen
    /\ \A i \in 1..Len(text) : text[i] \notin {10, 13}
    /\ cursor_pos > Utf16Length(text)
    /\ LCPasses(text, cursor_pos, LCStart) = Len(text)

(***************************************************************************)
(* main.rs: the document state and the message loop of main().              *)
(* One path can be picked in the file dialogs; `file` is the file there.    *)
(***************************************************************************)

\* get_string("FILE_UNTITLED") in the English locale.
Untitled == "Untitled"

\* The path the user picks in a file dialog.
DialogPath == "a.txt"

\* fn is_untitled_file(path: &PathBuf) -> bool (the other accepted name is
\* FILE_UNTITLED of the Japanese locale).
is_untitled_file(path) == path = "Untitled" \/ path = "Mudai"

\* format!("{} - {}\0", filename_str, app_name) and format!("*{} - {}\0", ...):
\* the title is the marker and the file name, the application name is fixed.
WindowTitle(modified, filename_str) == [star |-> modified, file_name |-> filename_str]

\* String::from_utf16(&units): Err on an unpaired surrogate.
RECURSIVE Utf16WellFormed(_, _)
Utf16WellFormed(units, i) ==
    IF i > Len(units) THEN TRUE
    ELSE IF IsHighSurrogate(units[i]) /\ i + 1 <= Len(units) /\ IsLowSurrogate(units[i + 1])
         THEN Utf16WellFormed(units, i + 2)
    ELSE IF IsHighSurrogate(units[i]) \/ IsLowSurrogate(units[i]) THEN FALSE
    ELSE Utf16WellFormed(units, i + 1)

from_utf16(units) ==
    IF Utf16WellFormed(units, 1)
    THEN [ok |-> TRUE, content |-> Utf16Decode(units, 1, <<>>)]
    ELSE [ok |-> FALSE, content |-> <<>>]

\* A NUL-terminated buffer as the edit control reads it: the units before the
\* first NUL.
RECURSIVE CStr(_)
CStr(units) ==
    IF units = <<>> \/ Head(units) = NUL THEN <<>>
    ELSE <<Head(units)>> \o CStr(Tail(units))

\* WM_SETTEXT (0x000C) with content.encode_utf16().chain(once(0)).
SetText(content) == CStr(encode_utf16(content) \o <<NUL>>)

\* WM_GETTEXTLENGTH, WM_GETTEXT, String::from_utf16(..).unwrap_or_default().
GetText(units) ==
    IF Len(units) > 0
    THEN LET r == from_utf16(units) IN IF r.ok THEN r.content ELSE <<>>
    ELSE <<>>

\* What the user does in a file dialog: cancel it, or confirm it with an item
\* of the encoding combo box selected (-1: the selection cannot be read).
DialogAnswers(last_item) ==
    {[confirmed |-> FALSE, selected |-> 0 - 1]}
        \cup {[confirmed |-> TRUE, selected |-> k] : k \in (0 - 1)..last_item}

NoneChosen == [some |-> FALSE, path |-> "None", encoding |-> "none"]
SomeChosen(path, encoding) == [some |-> TRUE, path |-> path, encoding |-> encoding]

\* pub fn open_file_dialog() -> Option<(PathBuf, FileEncoding)>
open_file_dialog(answer) ==
    IF ~answer.confirmed THEN NoneChosen
    ELSE SomeChosen(DialogPath,
             IF answer.selected = 1 THEN "ShiftJis"
             ELSE IF answer.selected = 2 THEN "Utf16Le"
             ELSE IF answer.selected = 3 THEN "Utf16Be"
             ELSE IF answer.selected = 4 THEN "Utf8"
             ELSE IF answer.selected = 5 THEN "Utf8Bom"
             ELSE "Auto")

\* pub fn save_file_dialog(default_encoding, current_file) -> Option<(PathBuf, FileEncoding)>
\* (the two arguments only preselect the combo box item and the file name).
save_file_dialog(default_encoding, current_file, answer) ==
    IF ~answer.confirmed THEN NoneChosen
    ELSE SomeChosen(DialogPath,
             IF answer.selected = 0 THEN "ShiftJis"
             ELSE IF answer.selected = 1 THEN "Utf16Le"
             ELSE IF answer.selected = 2 THEN "Utf16Be"
             ELSE IF answer.selected = 4 THEN "Utf8Bom"
             ELSE "Utf8")

\* The message handled last: its kind, how it went, the tag the dialog
\* returned and the tag load_file resolved ("none" where there is none).
LastCmd(cmd, outcome, chosen, resolved) ==
    [cmd |-> cmd, outcome |-> outcome, chosen |-> chosen, resolved |-> resolved]

\* The paste handled last: the buffer sent with EM_REPLACESEL (<<>> when no
\* message was sent).
LastPaste(cmd, outcome, buffer) ==
    [cmd |-> cmd, outcome |-> outcome, chosen |-> "none", resolved |-> "none",
     buffer |-> buffer]

\* Files at DialogPath when the application starts: none, "A", U+3042 in
\* Shift-JIS (not UTF-8), a UTF-8 BOM before a byte that is not UTF-8, "A" in
\* UTF-16 LE, "A\0".
AppFiles ==
    {NoFile, FileOf(<<65>>), FileOf(<<130, 160>>), FileOf(<<239, 187, 191, 255>>),
     FileOf(<<255, 254, 65, 0>>), FileOf(<<65, 0>>)}

\* The scalar values of the texts that File->Open is asked to load: NUL, 'A'
\* and U+3042 (a file read in a tag that turns it into other characters is
\* not opened).
OpenChars == {NUL, 65, 12354}

\* What the clipboard holds as CF_UNICODETEXT at a Ctrl+V: nothing, "A", or a
\* lone high surrogate.
Clipboards == {<<>>, <<65>>, <<55296>>}

\* main() up to the message loop.
InitApp ==
    /\ file \in AppFiles
    /\ edit_text = <<>>
    /\ CURRENT_FILE = Untitled
    /\ CURRENT_ENCODING = "Utf8"
    /\ SAVED_CONTENT = <<>>
    /\ LAST_MODIFIED_STATE = FALSE
    /\ title = WindowTitle(FALSE, Untitled)
    /\ pc = "GetMessage"
    /\ last_cmd = LastCmd("none", "none", "none", "none")
    /\ CreatedStatusBar
    /\ NoGuards
    /\ save_result = NoSave
    /\ load_result = NoLoad
    /\ text = <<>>
    /\ cursor_pos = 0
    /\ lc_result = <<>>

\* The document actions below leave out the status bar and the guards, which
\* never feed back into the document: they are modelled on their own further on.
AppFrame == UNCHANGED <<lc_vars, save_result, load_result, status_vars, lock_vars>>

\* window_proc, WM_COMMAND, ID_FILE_NEW.
FileNew ==
    /\ pc = "GetMessage"
    /\ edit_text' = CStr(encode_utf16(<<NUL>>))
    /\ CURRENT_FILE' = Untitled
    /\ UNCHANGED <<CURRENT_ENCODING, SAVED_CONTENT, LAST_MODIFIED_STATE, title, file>>
    /\ pc' = "Tail"
    /\ last_cmd' = LastCmd("New", "done", "none", "none")
    /\ AppFrame

\* OpenStore as it would be if it stored the path before it loaded the file.
OpenStoreEarly(chosen, r) ==
    /\ CURRENT_FILE' = chosen.path
    /\ IF r.ok
       THEN /\ edit_text' = SetText(r.content)
            /\ CURRENT_ENCODING' = r.encoding
            /\ SAVED_CONTENT' = r.content
            /\ title' = WindowTitle(FALSE, chosen.path)
       ELSE UNCHANGED <<edit_text, CURRENT_ENCODING, SAVED_CONTENT, title>>

\* OpenStore as it would be if it stored the tag asked for in the dialog.
OpenStoreSelected(chosen, r) ==
    IF r.ok
    THEN /\ edit_text' = SetText(r.content)
         /\ CURRENT_FILE' = chosen.path
         /\ CURRENT_ENCODING' = chosen.encoding
         /\ SAVED_CONTENT' = r.content
         /\ title' = WindowTitle(FALSE, chosen.path)
    ELSE UNCHANGED <<edit_text, CURRENT_FILE, CURRENT_ENCODING, SAVED_CONTENT, title>>

\* ID_FILE_OPEN after the dialog: `if let Ok((content, detected_encoding)) =
\* load_file(&path, selected_encoding) { ... }`.
OpenStore(chosen, r) ==
    IF r.ok
    THEN /\ edit_text' = SetText(r.content)
         /\ CURRENT_FILE' = chosen.path
         /\ CURRENT_ENCODING' = r.encoding
         /\ SAVED_CONTENT' = r.content
         /\ title' = WindowTitle(FALSE, chosen.path)
    ELSE UNCHANGED <<edit_text, CURRENT_FILE, CURRENT_ENCODING, SAVED_CONTENT, title>>

\* window_proc, WM_COMMAND, ID_FILE_OPEN.
FileOpen(answer) ==
    LET chosen == open_file_dialog(answer)
        r == load_file(file, chosen.encoding)
    IN  /\ pc = "GetMessage"
        /\ \A i \in 1..Len(r.content) : r.content[i] \in OpenChars
        /\ IF chosen.some
           THEN /\ OpenStore(chosen, r)
                /\ last_cmd' = LastCmd("Open", IF r.ok THEN "loaded" ELSE "error",
                                       chosen.encoding, r.encoding)
           ELSE /\ UNCHANGED <<edit_text, CURRENT_FILE, CURRENT_ENCODING, SAVED_CONTENT, title>>
                /\ last_cmd' = LastCmd("Open", "cancelled", "none", "none")
        /\ UNCHANGED <<LAST_MODIFIED_STATE, file>>
        /\ pc' = "Tail"
        /\ AppFrame

\* The statements after a confirmed save dialog: the text is read, written
\* with `let _ = save_file(&new_path, &text, encoding)`, and stored as saved.
SaveToChosen(cmd, chosen, writable) ==
    LET t == GetText(edit_text)
        r == save_file(file, t, chosen.encoding, writable)
    IN  /\ file' = r.file
        /\ CURRENT_FILE' = chosen.path
        /\ CURRENT_ENCODING' = chosen.encoding
        /\ SAVED_CONTENT' = t
        /\ title' = WindowTitle(FALSE, chosen.path)
        /\ last_cmd' = LastCmd(cmd, IF r.ok THEN "saved" ELSE "failed", chosen.encoding, "none")

\* SaveInPlace as it would be if it always wrote UTF-8.
SaveInPlaceUtf8(cmd, writable) ==
    LET t == GetText(edit_text)
        r == save_file(file, t, "Utf8", writable)
    IN  /\ file' = r.file
        /\ SAVED_CONTENT' = t
        /\ title' = WindowTitle(FALSE, CURRENT_FILE)
        /\ UNCHANGED <<CURRENT_FILE, CURRENT_ENCODING>>
        /\ last_cmd' = LastCmd(cmd, IF r.ok THEN "saved" ELSE "failed", "none", "none")

\* The save of a document that has a path: written to it in CURRENT_ENCODING.
SaveInPlace(cmd, writable) ==
    LET t == GetText(edit_text)
        r == save_file(file, t, CURRENT_ENCODING, writable)
    IN  /\ file' = r.file
        /\ SAVED_CONTENT' = t
        /\ title' = WindowTitle(FALSE, CURRENT_FILE)
        /\ UNCHANGED <<CURRENT_FILE, CURRENT_ENCODING>>
        /\ last_cmd' = LastCmd(cmd, IF r.ok THEN "saved" ELSE "failed", "none", "none")

SaveCancelled(cmd) ==
    /\ UNCHANGED <<file, CURRENT_FILE, CURRENT_ENCODING, SAVED_CONTENT, title>>
    /\ last_cmd' = LastCmd(cmd, "cancelled", "none", "none")

\* window_proc, WM_COMMAND, ID_FILE_SAVE.
FileSave(answer, writable) ==
    LET chosen == save_file_dialog(CURRENT_ENCODING, CURRENT_FILE, answer)
    IN  /\ pc = "GetMessage"
        /\ IF is_untitled_file(CURRENT_FILE)
           THEN IF chosen.some THEN SaveToChosen("Save", chosen, writable)
                ELSE SaveCancelled("Save")
           ELSE SaveInPlace("Save", writable)
        /\ UNCHANGED <<edit_text, LAST_MODIFIED_STATE>>
        /\ pc' = "Tail"
        /\ AppFrame

\* window_proc, WM_COMMAND, ID_FILE_SAVEAS.
FileSaveAs(answer, writable) ==
    LET chosen == save_file_dialog(CURRENT_ENCODING, CURRENT_FILE, answer)
    IN  /\ pc = "GetMessage"
        /\ IF chosen.some THEN SaveToChosen("SaveAs", chosen, writable)
           ELSE SaveCancelled("SaveAs")
        /\ UNCHANGED <<edit_text, LAST_MODIFIED_STATE>>
        /\ pc' = "Tail"
        /\ AppFrame

\* main(): WM_KEYDOWN 'S' with Ctrl down, handled in the loop, then `continue`.
CtrlS(answer, writable) ==
    LET chosen == save_file_dialog(CURRENT_ENCODING, CURRENT_FILE, answer)
    IN  /\ pc = "GetMessage"
        /\ IF is_untitled_file(CURRENT_FILE)
           THEN IF chosen.some THEN SaveToChosen("CtrlS", chosen, writable)
                ELSE SaveCancelled("CtrlS")
           ELSE SaveInPlace("CtrlS", writable)
        /\ UNCHANGED <<edit_text, LAST_MODIFIED_STATE>>
        /\ pc' = "GetMessage"
        /\ AppFrame

\* main(): WM_KEYDOWN 'V' with Ctrl down: the clipboard text up to its NUL is
\* sent with EM_REPLACESEL (the caret stands at the end), then `continue`.
CtrlV(clipboard) ==
    LET r == from_utf16(clipboard)
        pasted == Len(clipboard) > 0 /\ r.ok
        text_utf16 == encode_utf16(r.content) \o <<NUL>>
    IN  /\ pc = "GetMessage"
        /\ Len(edit_text) + Len(clipboard) <= MaxEditLen
        /\ edit_text' = IF pasted THEN edit_text \o CStr(text_utf16) ELSE edit_text
        /\ UNCHANGED <<file, CURRENT_FILE, CURRENT_ENCODING, SAVED_CONTENT,
                       LAST_MODIFIED_STATE, title>>
        /\ pc' = "GetMessage"
        /\ last_cmd' = IF pasted THEN LastPaste("CtrlV", "pasted", text_utf16)
                        ELSE LastPaste("CtrlV", "none", <<>>)
        /\ AppFrame

\* main(): TranslateMessage and DispatchMessageW of a key the edit control
\* takes: the letter A typed at the end, or the last unit deleted.
Keystroke(typed) ==
    /\ pc = "GetMessage"
    /\ IF typed THEN Len(edit_text) < MaxEditLen ELSE Len(edit_text) > 0
    /\ edit_text' = IF typed THEN Append(edit_text, 65)
                    ELSE SubSeq(edit_text, 1, Len(edit_text) - 1)
    /\ UNCHANGED <<file, CURRENT_FILE, CURRENT_ENCODING, SAVED_CONTENT,
                   LAST_MODIFIED_STATE, title>>
    /\ pc' = "Tail"
    /\ last_cmd' = LastCmd("Key", "done", "none", "none")
    /\ AppFrame

\* The body of update_title_if_needed: LAST_MODIFIED_STATE and the title as it
\* leaves them.
UpdatedTitle(units, saved, last_state, old_title, current_file) ==
    LET current_text == GetText(units)
        is_modified == saved # current_text
    IN  IF last_state = is_modified
        THEN [last_state |-> last_state, title |-> old_title]
        ELSE [last_state |-> is_modified, title |-> WindowTitle(is_modified, current_file)]

\* fn update_title_if_needed(hwnd, edit_hwnd), called at the end of an
\* iteration of the loop that dispatched its message.
update_title_if_needed ==
    LET updated == UpdatedTitle(edit_text, SAVED_CONTENT, LAST_MODIFIED_STATE, title,
                                CURRENT_FILE)
    IN  /\ pc = "Tail"
        /\ LAST_MODIFIED_STATE' = updated.last_state
        /\ title' = updated.title
        /\ UNCHANGED <<file, edit_text, CURRENT_FILE, CURRENT_ENCODING, SAVED_CONTENT, last_cmd>>
        /\ pc' = "GetMessage"
        /\ AppFrame

NextApp ==
    \/ FileNew
    \/ \E answer \in DialogAnswers(5) : FileOpen(answer)
    \/ \E answer \in DialogAnswers(4), writable \in BOOLEAN : FileSave(answer, writable)
    \/ \E answer \in DialogAnswers(4), writable \in BOOLEAN : FileSaveAs(answer, writable)
    \/ \E answer \in DialogAnswers(4), writable \in BOOLEAN : CtrlS(answer, writable)
    \/ \E clipboard \in Clipboards : CtrlV(clipboard)
    \/ \E typed \in BOOLEAN : Keystroke(typed)
    \/ update_title_if_needed

SpecApp == InitApp /\ [][NextApp]_vars

(***************************************************************************)
(* Properties of the document state (checked under SpecApp).                *)
(***************************************************************************)

SaveCmds == {"Save", "SaveAs", "CtrlS"}

\* C14: Auto never describes a loaded or saved document: load_file never
\* resolves to Auto, save_file_dialog never returns Auto, and CURRENT_ENCODING
\* is one of the five other tags in every state reached by New, Open, Save
\* and Save As (and Ctrl+S).
C14_NeverAuto ==
    /\ CURRENT_ENCODING \in Encodings \ {"Auto"}
    /\ (last_cmd.cmd = "Open" /\ last_cmd.outcome = "loaded")
           => last_cmd.resolved \in Encodings \ {"Auto"}
    /\ (last_cmd.cmd \in SaveCmds /\ last_cmd.outcome \in {"saved", "failed"}
            /\ last_cmd.chosen # "none")
           => last_cmd.chosen \in Encodings \ {"Auto"}

C14_Witness ==
    /\ last_cmd = LastCmd("Open", "loaded", "Auto", "ShiftJis")
    /\ CURRENT_ENCODING = "ShiftJis"
    /\ CURRENT_FILE = DialogPath
    /\ SAVED_CONTENT = <<12354>>

LexLeq(a, b) == a[1] < b[1] \/ (a[1] = b[1] /\ a[2] <= b[2])

\* C29: calculate_line_column is monotone in the offset: for every text and
\* offsets o1 <= o2 the result for o1 is lexicographically <= the result for
\* o2.
C29_Monotone ==
    Located =>
        \A o2 \in LCOffsets :
            cursor_pos <= o2 => LexLeq(lc_result, calculate_line_column(text, o2))

C29_Witness ==
    /\ Located
    /\ text = <<65, 13, 10, 65>>
    /\ cursor_pos = 1
    /\ lc_result = <<1, 2>>
    /\ calculate_line_column(text, 2) = <<2, 1>>
    /\ calculate_line_column(text, 4) = <<2, 2>>

\* A step of the loop that handles a message (the other steps run
\* update_title_if_needed and keep last_cmd).
Handles(cmds) == pc = "GetMessage" /\ last_cmd'.cmd \in cmds

\* C21: the encoding is remembered for the next save: File->Save and Ctrl+S
\* on a document that has a path write the text in CURRENT_ENCODING, and
\* CURRENT_ENCODING is Utf8 at the start, becomes the tag load_file resolved at
\* each successful Open and the tag chosen at each confirmed save dialog, and
\* is changed by nothing else.
C21_EncodingRemembered ==
    /\ [](last_cmd.cmd = "none" => CURRENT_ENCODING = "Utf8")
    /\ [][/\ (Handles({"Open"}) /\ last_cmd'.outcome = "loaded")
                 => CURRENT_ENCODING' = last_cmd'.resolved
          /\ (Handles(SaveCmds) /\ last_cmd'.chosen # "none")
                 => CURRENT_ENCODING' = last_cmd'.chosen
          /\ ~(Handles({"Open"}) /\ last_cmd'.outcome = "loaded")
                 /\ ~(Handles(SaveCmds) /\ last_cmd'.chosen # "none")
                 => CURRENT_ENCODING' = CURRENT_ENCODING
          /\ (Handles({"Save", "CtrlS"}) /\ last_cmd'.chosen = "none"
                 /\ last_cmd'.outcome = "saved")
                 => file' = save_file(file, GetText(edit_text), CURRENT_ENCODING, TRUE).file]_vars

C21_Witness ==
    /\ last_cmd = LastCmd("CtrlS", "saved", "none", "none")
    /\ CURRENT_FILE = DialogPath
    /\ CURRENT_ENCODING = "Utf16Be"
    /\ SAVED_CONTENT = <<65>>
    /\ file = FileOf(<<254, 255, 0, 65>>)

\* C22: a failed write does not mark the document as saved: when save_file
\* returns an error during File->Save, Save As or Ctrl+S, SAVED_CONTENT,
\* CURRENT_FILE and CURRENT_ENCODING keep their values and the title keeps
\* showing the document as modified.
C22_FailedSaveNotSaved ==
    [][(Handles(SaveCmds) /\ last_cmd'.outcome = "failed")
           => /\ SAVED_CONTENT' = SAVED_CONTENT
              /\ CURRENT_FILE' = CURRENT_FILE
              /\ CURRENT_ENCODING' = CURRENT_ENCODING
              /\ title' = title]_vars

\* C23: File->New returns the application to its start-up document state:
\* once the iteration that handled it completes, the editor text is empty,
\* CURRENT_FILE is the untitled name, SAVED_CONTENT is empty and the title is
\* the untitled name with no '*'.
C23_NewResets ==
    (pc = "GetMessage" /\ last_cmd.cmd = "New")
        => /\ edit_text = <<>>
           /\ CURRENT_FILE = Untitled
           /\ SAVED_CONTENT = <<>>
           /\ title = WindowTitle(FALSE, Untitled)

\* C24: the modified marker is always accurate: at the end of every iteration
\* of the message loop the title starts with '*' exactly when the editor text
\* differs from SAVED_CONTENT, and LAST_MODIFIED_STATE is that truth value.
C24_MarkerAccurate ==
    pc = "GetMessage"
        => /\ title.star = (GetText(edit_text) # SAVED_CONTENT)
           /\ LAST_MODIFIED_STATE = (GetText(edit_text) # SAVED_CONTENT)

\* C28: Ctrl+S and File->Save are the same operation: from the same state and
\* with the same dialog outcome, Ctrl+S leaves CURRENT_FILE, CURRENT_ENCODING,
\* SAVED_CONTENT, the title and LAST_MODIFIED_STATE as the iteration of
\* File->Save does, which is the handler's effect (the same statements)
\* followed by update_title_if_needed.
C28_CtrlSLikeFileSave ==
    [][\A answer \in DialogAnswers(4), writable \in BOOLEAN :
           CtrlS(answer, writable) =>
               LET after_save == UpdatedTitle(edit_text', SAVED_CONTENT', LAST_MODIFIED_STATE,
                                              title', CURRENT_FILE')
               IN  /\ ENABLED FileSave(answer, writable)
                   /\ LAST_MODIFIED_STATE' = after_save.last_state
                   /\ title' = after_save.title]_vars

(***************************************************************************)
(* main.rs and context_menu.rs: the edit commands and the two paste paths.  *)
(***************************************************************************)

\* constants.rs: the menu command ids.
ID_FILE_NEW == 1
ID_FILE_OPEN == 2
ID_FILE_SAVE == 3
ID_FILE_SAVEAS == 4
ID_FILE_EXIT == 5
ID_EDIT_UNDO == 6
ID_EDIT_REDO == 7
ID_EDIT_COPY == 8
ID_EDIT_CUT == 9
ID_EDIT_PASTE == 10
ID_VIEW_WORDWRAP == 11
ID_VIEW_STATUSBAR == 12
ID_EDIT_SELECTALL == 13
ID_EDIT_DELETE == 14

\* window_proc, WM_COMMAND: the ids that `match cmd_id` has an arm for; every
\* other id takes the arm `_ => DefWindowProcW(..)`.
CommandArms ==
    {ID_FILE_NEW, ID_FILE_OPEN, ID_FILE_SAVE, ID_FILE_SAVEAS, ID_FILE_EXIT,
     ID_EDIT_SELECTALL, ID_EDIT_CUT, ID_EDIT_COPY, ID_EDIT_PASTE,
     ID_VIEW_WORDWRAP, ID_VIEW_STATUSBAR}

\* show_context_menu: the items appended with AppendMenuW that stay enabled.
context_menu_items(can_undo, can_redo, has_selection, can_paste) ==
    {ID_EDIT_UNDO, ID_EDIT_REDO, ID_EDIT_CUT, ID_EDIT_COPY, ID_EDIT_PASTE,
     ID_EDIT_DELETE, ID_EDIT_SELECTALL}
        \ ((IF can_undo THEN {} ELSE {ID_EDIT_UNDO})
           \cup (IF can_redo THEN {} ELSE {ID_EDIT_REDO})
           \cup (IF has_selection THEN {} ELSE {ID_EDIT_CUT, ID_EDIT_COPY, ID_EDIT_DELETE})
           \cup (IF can_paste THEN {} ELSE {ID_EDIT_PASTE}))

\* The command handled last: its id and the arm of `match cmd_id` it took.
LastCommand(cmd_id, arm) ==
    [cmd |-> "Command", outcome |-> arm, chosen |-> "none", resolved |-> "none",
     id |-> cmd_id]

\* An item of the context menu other than Paste is chosen and its WM_COMMAND
\* is dispatched to window_proc.  What the edit control can undo and redo is
\* its own; the selection, where there is one, is the last unit of the text.
ContextCommand(cmd_id, can_undo, can_redo, has_selection) ==
    /\ pc = "GetMessage"
    /\ has_selection => Len(edit_text) > 0
    /\ cmd_id \in context_menu_items(can_undo, can_redo, has_selection, FALSE)
    /\ edit_text' = IF cmd_id \in CommandArms /\ cmd_id = ID_EDIT_CUT
                    THEN SubSeq(edit_text, 1, Len(edit_text) - 1)
                    ELSE edit_text
    /\ last_cmd' = LastCommand(cmd_id, IF cmd_id \in CommandArms THEN "arm"
                                       ELSE "DefWindowProcW")
    /\ UNCHANGED <<file, CURRENT_FILE, CURRENT_ENCODING, SAVED_CONTENT,
                   LAST_MODIFIED_STATE, title>>
    /\ pc' = "Tail"
    /\ AppFrame

\* window_proc, WM_PASTE: `let text_utf16: Vec<u16> = text.encode_utf16().collect();`
PasteBuffer(content) == encode_utf16(content)

\* window_proc, WM_COMMAND, ID_EDIT_PASTE (Edit->Paste and the context menu):
\* SendMessageW(hwnd, WM_PASTE), whose handler sends the clipboard text with
\* EM_REPLACESEL.  The edit control reads the buffer up to a NUL, so past its
\* end when it holds none: `beyond` is what lies in memory after the buffer.
EditPaste(clipboard, beyond) ==
    LET r == from_utf16(clipboard)
        pasted == Len(clipboard) > 0 /\ r.ok
        text_utf16 == PasteBuffer(r.content)
    IN  /\ pc = "GetMessage"
        /\ ~pasted => beyond = <<>>
        /\ Len(edit_text) + Len(clipboard) + Len(beyond) <= MaxEditLen
        /\ edit_text' = IF pasted THEN edit_text \o CStr(text_utf16 \o beyond \o <<NUL>>)
                        ELSE edit_text
        /\ last_cmd' = IF pasted THEN LastPaste("Paste", "pasted", text_utf16)
                        ELSE LastPaste("Paste", "none", <<>>)
        /\ UNCHANGED <<file, CURRENT_FILE, CURRENT_ENCODING, SAVED_CONTENT,
                       LAST_MODIFIED_STATE, title>>
        /\ pc' = "Tail"
        /\ AppFrame

NextEdit ==
    \/ \E cmd_id \in ID_EDIT_UNDO..ID_EDIT_DELETE, can_undo \in BOOLEAN, can_redo \in BOOLEAN,
          has_selection \in BOOLEAN :
           ContextCommand(cmd_id, can_undo, can_redo, has_selection)
    \/ \E clipboard \in Clipboards, beyond \in {<<>>, <<65>>} : EditPaste(clipboard, beyond)
    \/ \E clipboard \in Clipboards : CtrlV(clipboard)
    \/ \E typed \in BOOLEAN : Keystroke(typed)
    \/ update_title_if_needed

SpecEdit == InitApp /\ [][NextEdit]_vars

\* C25: every command the context menu offers is carried out: the id of each
\* enabled item has its own arm in the WM_COMMAND handler and never falls
\* through to the default handler.
C25_ContextCommandsHandled ==
    last_cmd.cmd = "Command" => last_cmd.outcome # "DefWindowProcW"

\* C27: every buffer sent to the edit control with EM_REPLACESEL ends with a
\* NUL code unit, on the WM_PASTE path and on the Ctrl+V path.
C27_PasteBufferTerminated ==
    (last_cmd.cmd \in {"Paste", "CtrlV"} /\ last_cmd.outcome = "pasted")
        => /\ Len(last_cmd.buffer) > 0
           /\ last_cmd.buffer[Len(last_cmd.buffer)] = NUL

(***************************************************************************)
(* status_bar.rs: update_status_bar and its cache LAST_STATUS.              *)
(***************************************************************************)
MaxStatusLen == 2     \* UTF-16 units in the edit control when the bar is updated

\* update_status_bar: the loop that turns the character index `start_pos`
\* into `utf16_pos`; `i` is the next char of `text_str`.
RECURSIVE Utf16Pos(_, _, _, _, _)
Utf16Pos(text_str, start_pos, i, char_idx, utf16_pos) ==
    IF i > Len(text_str) \/ char_idx >= start_pos THEN utf16_pos
    ELSE IF text_str[i] = CR /\ i < Len(text_str) /\ text_str[i + 1] = LF
         THEN Utf16Pos(text_str, start_pos, i + 2, char_idx + 1, utf16_pos + 2)
         ELSE Utf16Pos(text_str, start_pos, i + 1, char_idx + 1,
                       utf16_pos + (IF text_str[i] > BmpMax THEN 2 ELSE 1))

\* update_status_bar: `char_count` with COUNT_NEWLINE_AS_ONE set (its initial
\* value): "\r\n" counts once and '\0' is not counted.
RECURSIVE CharCount(_, _)
CharCount(text_str, i) ==
    IF i > Len(text_str) THEN 0
    ELSE IF text_str[i] = CR /\ i < Len(text_str) /\ text_str[i + 1] = LF
         THEN 1 + CharCount(text_str, i + 2)
         ELSE (IF text_str[i] # NUL THEN 1 ELSE 0) + CharCount(text_str, i + 1)

\* update_status_bar: `zoom_percent` from what EM_GETZOOM returned.
zoom_percent(numerator, denominator) ==
    IF denominator # 0 THEN (numerator * 100) \div denominator ELSE 100

\* update_status_bar: `current_status`.
current_status(units, start_pos, zoom) ==
    LET text_str == from_utf16_lossy(units)
        utf16_pos == Utf16Pos(text_str, start_pos, 1, 0, 0)
        display == calculate_line_column(text_str, utf16_pos)
    IN  <<display[1], display[2], CharCount(text_str, 1), zoom_percent(zoom[1], zoom[2])>>

\* update_status_bar: the arms of `match current_encoding`.
StatusEncodings == {"Utf8", "ShiftJis", "Auto"}

\* update_status_bar: `encoding_text`.
encoding_text(current_encoding) ==
    CASE current_encoding = "Utf8" -> "UTF-8"
      [] current_encoding = "ShiftJis" -> "Shift-JIS"
      [] current_encoding = "Auto" -> "Auto"

\* What EM_GETZOOM can return: <<numerator, denominator>>.
Zooms == {<<0, 0>>, <<1, 1>>, <<3, 2>>}

\* update_status_bar(edit_hwnd, char_hwnd, pos_hwnd, encoding_hwnd, zoom_hwnd,
\* current_encoding) with a valid edit control holding `units`, the selection
\* starting at `start_pos` and the zoom `zoom`.
update_status_bar(units, start_pos, zoom, current_encoding) ==
    LET status == current_status(units, start_pos, zoom)
    IN  /\ status_call' = [called |-> TRUE, current_encoding |-> current_encoding,
                           current_status |-> status]
        /\ IF LAST_STATUS # <<status>>
           THEN /\ LAST_STATUS' = <<status>>
                /\ char_hwnd' = <<status[3]>>
                /\ pos_hwnd' = <<status[1], status[2]>>
                /\ encoding_hwnd' = encoding_text(current_encoding)
                /\ zoom_hwnd' = <<status[4]>>
           ELSE UNCHANGED <<LAST_STATUS, char_hwnd, pos_hwnd, encoding_hwnd, zoom_hwnd>>
        /\ UNCHANGED <<lc_vars, io_vars, edit_text, CURRENT_FILE, CURRENT_ENCODING,
                       SAVED_CONTENT, LAST_MODIFIED_STATE, title, pc, last_cmd, lock_vars>>

InitStatus ==
    /\ file = NoFile
    /\ edit_text = <<>>
    /\ CURRENT_FILE = Untitled
    /\ CURRENT_ENCODING = "Utf8"
    /\ SAVED_CONTENT = <<>>
    /\ LAST_MODIFIED_STATE = FALSE
    /\ title = WindowTitle(FALSE, Untitled)
    /\ pc = "GetMessage"
    /\ last_cmd = LastCmd("none", "none", "none", "none")
    /\ CreatedStatusBar
    /\ NoGuards
    /\ save_result = NoSave
    /\ load_result = NoLoad
    /\ text = <<>>
    /\ cursor_pos = 0
    /\ lc_result = <<>>

NextStatus ==
    \E units \in SeqsUpTo({65, CR, LF}, MaxStatusLen), start_pos \in 0..MaxStatusLen,
       zoom \in Zooms, current_encoding \in StatusEncodings :
        update_status_bar(units, start_pos, zoom, current_encoding)

SpecStatus == InitStatus /\ [][NextStatus]_vars

\* C26: after any call of update_status_bar the encoding window shows the
\* display name of the encoding the call was given, also when line, column,
\* character count and zoom are what they were at the call before.
C26_EncodingShown ==
    status_call.called => encoding_hwnd = encoding_text(status_call.current_encoding)

(***************************************************************************)
(* main.rs and status_bar.rs: the guards the UI thread takes.  Each handler *)
(* is the sequence of its lock acquisitions, guard releases (the end of the *)
(* guard's scope, or drop), calls that come back into window_proc, modal    *)
(* dialogs and branches, in the order of the source.  std::sync::Mutex is   *)
(* not re-entrant: a thread that locks a mutex it holds never proceeds.     *)
(***************************************************************************)
MaxReentry == 1       \* open dialogs whose modal loop dispatches window messages

lock(m) == [op |-> "lock", arg |-> m, to |-> 0]
release(m) == [op |-> "release", arg |-> m, to |-> 0]
\* A call of a function, or SendMessageW/SetWindowTextW to a window of this thread.
call(handler) == [op |-> "call", arg |-> handler, to |-> 0]
\* SendMessageW(edit_hwnd, ..); `notifies`: the control may send WM_NOTIFY back.
edit(notifies) == [op |-> "edit", arg |-> notifies, to |-> 0]
\* dialog.Show(None): `to` is where a cancelled dialog continues.
dialog(to) == [op |-> "dialog", arg |-> "", to |-> to]
\* A branch on data the guards do not depend on: `to` when it is not taken.
either(to) == [op |-> "either", arg |-> "", to |-> to]
if_untitled(to) == [op |-> "if_untitled", arg |-> "", to |-> to]
if_visible(to) == [op |-> "if_visible", arg |-> "", to |-> to]
jump(to) == [op |-> "jump", arg |-> "", to |-> to]
store(path) == [op |-> "store", arg |-> path, to |-> 0]
toggle == [op |-> "toggle", arg |-> "", to |-> 0]
get_message == [op |-> "get_message", arg |-> "", to |-> 0]

\* main(), the message loop: GetMessageW; the Ctrl+S and Ctrl+V branches end
\* in `continue`; every other message is dispatched and followed by the
\* status-bar update and update_title_if_needed.
MainLoopCode ==
    << get_message,
       lock("STATUSBAR_VISIBLE"),
       if_visible(7),
       lock("CURRENT_ENCODING"), release("CURRENT_ENCODING"),
       call("update_status_bar"),
       release("STATUSBAR_VISIBLE"),
       call("update_title_if_needed"),
       jump(1) >>

\* update_status_bar: `last` is held until the end of the function.
UpdateStatusBarCode ==
    << edit(FALSE),
       lock("LAST_STATUS"),
       call("status_text_proc"),
       release("LAST_STATUS") >>

UpdateTitleCode ==
    << edit(FALSE),
       lock("SAVED_CONTENT"), release("SAVED_CONTENT"),
       lock("LAST_MODIFIED_STATE"), release("LAST_MODIFIED_STATE"),
       either(10),
       lock("CURRENT_FILE"),
       call("WM_SETTEXT"),
       release("CURRENT_FILE") >>

FileNewCode ==
    << edit(TRUE),
       lock("CURRENT_FILE"), store(Untitled), release("CURRENT_FILE"),
       edit(FALSE) >>

FileOpenCode ==
    << dialog(16),
       either(16),
       edit(TRUE),
       lock("CURRENT_FILE"), store(DialogPath), release("CURRENT_FILE"),
       lock("CURRENT_ENCODING"), release("CURRENT_ENCODING"),
       lock("SAVED_CONTENT"), release("SAVED_CONTENT"),
       edit(FALSE),
       call("WM_SETTEXT"),
       lock("CURRENT_ENCODING"), release("CURRENT_ENCODING"),
       call("update_status_bar") >>

\* FileSaveCode without `drop(current_file)`: the guard lives to the end of
\* its `if let`.
FileSaveCodeNoDrop ==
    << lock("CURRENT_FILE"),
       if_untitled(21),
       edit(FALSE),
       lock("CURRENT_ENCODING"), release("CURRENT_ENCODING"),
       dialog(28),
       edit(FALSE),
       lock("CURRENT_FILE"), store(DialogPath), release("CURRENT_FILE"),
       lock("CURRENT_ENCODING"), release("CURRENT_ENCODING"),
       lock("SAVED_CONTENT"), release("SAVED_CONTENT"),
       edit(FALSE),
       call("WM_SETTEXT"),
       lock("CURRENT_ENCODING"), release("CURRENT_ENCODING"),
       call("update_status_bar"),
       jump(28),
       lock("CURRENT_ENCODING"), release("CURRENT_ENCODING"),
       edit(FALSE),
       lock("SAVED_CONTENT"), release("SAVED_CONTENT"),
       edit(FALSE),
       call("WM_SETTEXT"),
       release("CURRENT_FILE") >>

\* window_proc, WM_COMMAND, ID_FILE_SAVE.  Untitled: drop(current_file), then
\* the dialog, then CURRENT_FILE is locked again for the new path.  Titled:
\* the guard is held to the end of the arm.
FileSaveCode ==
    << lock("CURRENT_FILE"),
       if_untitled(21),
       release("CURRENT_FILE"),
       lock("CURRENT_ENCODING"), release("CURRENT_ENCODING"),
       dialog(29),
       edit(FALSE),
       lock("CURRENT_FILE"), store(DialogPath), release("CURRENT_FILE"),
       lock("CURRENT_ENCODING"), release("CURRENT_ENCODING"),
       lock("SAVED_CONTENT"), release("SAVED_CONTENT"),
       edit(FALSE),
       call("WM_SETTEXT"),
       lock("CURRENT_ENCODING"), release("CURRENT_ENCODING"),
       call("update_status_bar"),
       jump(29),
       lock("CURRENT_ENCODING"), release("CURRENT_ENCODING"),
       edit(FALSE),
       lock("SAVED_CONTENT"), release("SAVED_CONTENT"),
       edit(FALSE),
       call("WM_SETTEXT"),
       release("CURRENT_FILE") >>

\* main(), the Ctrl+S branch of the message loop.
CtrlSCode ==
    << lock("CURRENT_FILE"),
       if_untitled(21),
       release("CURRENT_FILE"),
       lock("CURRENT_ENCODING"), release("CURRENT_ENCODING"),
       dialog(29),
       edit(FALSE),
       lock("CURRENT_FILE"), store(DialogPath), release("CURRENT_FILE"),
       lock("CURRENT_ENCODING"), release("CURRENT_ENCODING"),
       lock("SAVED_CONTENT"), release("SAVED_CONTENT"),
       edit(FALSE),
       call("WM_SETTEXT"),
       lock("CURRENT_ENCODING"), release("CURRENT_ENCODING"),
       call("update_status_bar"),
       jump(29),
       edit(FALSE),
       lock("CURRENT_ENCODING"), release("CURRENT_ENCODING"),
       lock("SAVED_CONTENT"), release("SAVED_CONTENT"),
       edit(FALSE),
       call("WM_SETTEXT"),
       release("CURRENT_FILE") >>

FileSaveAsCode ==
    << lock("CURRENT_FILE"), release("CURRENT_FILE"),
       lock("CURRENT_ENCODING"), release("CURRENT_ENCODING"),
       dialog(17),
       edit(FALSE),
       lock("CURRENT_FILE"), store(DialogPath), release("CURRENT_FILE"),
       lock("CURRENT_ENCODING"), release("CURRENT_ENCODING"),
       lock("SAVED_CONTENT"), release("SAVED_CONTENT"),
       edit(FALSE),
       call("WM_SETTEXT"),
       call("update_status_bar") >>

\* toggle_word_wrap, with update_wordwrap_menu_check at its end.
WordWrapCode ==
    << lock("WORD_WRAP_ENABLED"), release("WORD_WRAP_ENABLED"),
       edit(TRUE),
       lock("MENU_HANDLE"),
       lock("WORD_WRAP_ENABLED"), release("WORD_WRAP_ENABLED"),
       release("MENU_HANDLE") >>

\* window_proc, WM_COMMAND, ID_VIEW_STATUSBAR: SendMessageW(hwnd, WM_SIZE) last.
StatusBarCode ==
    << lock("STATUSBAR_VISIBLE"), toggle, release("STATUSBAR_VISIBLE"),
       lock("MENU_HANDLE"), release("MENU_HANDLE"),
       call("WM_SIZE") >>

\* window_proc, WM_SIZE and WM_SETCURSOR: `is_statusbar_visible`.
VisibleCode == << lock("STATUSBAR_VISIBLE"), release("STATUSBAR_VISIBLE") >>

\* window_proc, WM_KEYUP | WM_LBUTTONUP.
KeyUpCode ==
    << lock("STATUSBAR_VISIBLE"),
       if_visible(6),
       lock("CURRENT_ENCODING"), release("CURRENT_ENCODING"),
       call("update_status_bar"),
       release("STATUSBAR_VISIBLE") >>

Code(handler) ==
    CASE handler = "main" -> MainLoopCode
      [] handler = "update_status_bar" -> UpdateStatusBarCode
      [] handler = "update_title_if_needed" -> UpdateTitleCode
      [] handler = "ID_FILE_NEW" -> FileNewCode
      [] handler = "ID_FILE_OPEN" -> FileOpenCode
      [] handler = "ID_FILE_SAVE" -> FileSaveCode
      [] handler = "ID_FILE_SAVEAS" -> FileSaveAsCode
      [] handler = "CtrlS" -> CtrlSCode
      [] handler = "CtrlV" -> << edit(TRUE) >>
      [] handler = "ID_EDIT_PASTE" -> << call("WM_PASTE") >>
      [] handler = "WM_PASTE" -> << edit(TRUE) >>
      [] handler = "ID_VIEW_WORDWRAP" -> WordWrapCode
      [] handler = "ID_VIEW_STATUSBAR" -> StatusBarCode
      [] handler = "WM_SIZE" -> VisibleCode
      [] handler = "WM_SETCURSOR" -> VisibleCode
      [] handler = "WM_KEYUP" -> KeyUpCode
      \* WM_NOTIFY: remove_ole_objects, which reads and may rewrite the text.
      [] handler = "WM_NOTIFY" -> << edit(FALSE) >>
      \* WM_SETTEXT to the main window takes `_ => DefWindowProcW`; the
      \* status bar's windows have status_text_proc, which takes no lock.
      [] handler = "WM_SETTEXT" -> << >>
      [] handler = "status_text_proc" -> << >>

\* The messages handled inside the loop of main() before any dispatch.
LoopKeys == {"CtrlS", "CtrlV"}

\* The messages window_proc has an arm for that takes a guard or sends on.
WindowMessages ==
    {"ID_FILE_NEW", "ID_FILE_OPEN", "ID_FILE_SAVE", "ID_FILE_SAVEAS", "ID_EDIT_PASTE",
     "ID_VIEW_WORDWRAP", "ID_VIEW_STATUSBAR", "WM_SIZE", "WM_SETCURSOR", "WM_KEYUP",
     "WM_NOTIFY"}

Frame(handler, ip) == [handler |-> handler, ip |-> ip]
Top == ui_stack[Len(ui_stack)]
Running == ~ui_blocked /\ Len(ui_stack) > 0
Returning == Running /\ Top.ip > Len(Code(Top.handler))
At(kind) == Running /\ Top.ip <= Len(Code(Top.handler)) /\ Code(Top.handler)[Top.ip].op = kind
Instr == Code(Top.handler)[Top.ip]
Goto(ip) == [ui_stack EXCEPT ![Len(ui_stack)].ip = ip]
Advance == Goto(Top.ip + 1)
AtDialog(frame) ==
    /\ frame.ip <= Len(Code(frame.handler))
    /\ Code(frame.handler)[frame.ip].op = "dialog"
OpenDialogs == Cardinality({i \in 1..Len(ui_stack) : AtDialog(ui_stack[i])})

LockFrame ==
    UNCHANGED <<lc_vars, io_vars, edit_text, CURRENT_ENCODING, SAVED_CONTENT,
                LAST_MODIFIED_STATE, title, pc, last_cmd, status_vars>>

\* main() enters its message loop.
EnterLoop ==
    /\ ~ui_blocked /\ ui_stack = <<>>
    /\ ui_stack' = <<Frame("main", 1)>>
    /\ UNCHANGED <<held, ui_blocked, CURRENT_FILE, STATUSBAR_VISIBLE>>
    /\ LockFrame

\* GetMessageW returns `message`.
GetMessage(message) ==
    /\ At("get_message")
    /\ ui_stack' = Append(IF message \in LoopKeys THEN ui_stack ELSE Advance,
                          Frame(message, 1))
    /\ UNCHANGED <<held, ui_blocked, CURRENT_FILE, STATUSBAR_VISIBLE>>
    /\ LockFrame

\* X.lock(): the thread stops for good when it holds X's guard already.
Lock ==
    /\ At("lock")
    /\ IF Instr.arg \in held
       THEN ui_blocked' = TRUE /\ UNCHANGED <<held, ui_stack>>
       ELSE held' = held \cup {Instr.arg} /\ ui_stack' = Advance /\ UNCHANGED ui_blocked
    /\ UNCHANGED <<CURRENT_FILE, STATUSBAR_VISIBLE>>
    /\ LockFrame

\* The guard goes out of scope, or is dropped.
Release ==
    /\ At("release")
    /\ held' = held \ {Instr.arg}
    /\ ui_stack' = Advance
    /\ UNCHANGED <<ui_blocked, CURRENT_FILE, STATUSBAR_VISIBLE>>
    /\ LockFrame

Call ==
    /\ At("call")
    /\ ui_stack' = Append(Advance, Frame(Instr.arg, 1))
    /\ UNCHANGED <<held, ui_blocked, CURRENT_FILE, STATUSBAR_VISIBLE>>
    /\ LockFrame

Return ==
    /\ Returning
    /\ ui_stack' = SubSeq(ui_stack, 1, Len(ui_stack) - 1)
    /\ UNCHANGED <<held, ui_blocked, CURRENT_FILE, STATUSBAR_VISIBLE>>
    /\ LockFrame

\* A message to the edit control, which answers at once or, where it may,
\* sends WM_NOTIFY to the main window first.
EditMessage(notify) ==
    /\ At("edit")
    /\ notify => Instr.arg
    /\ ui_stack' = IF notify THEN Append(Advance, Frame("WM_NOTIFY", 1)) ELSE Advance
    /\ UNCHANGED <<held, ui_blocked, CURRENT_FILE, STATUSBAR_VISIBLE>>
    /\ LockFrame

\* The modal loop of an open dialog dispatches a message to window_proc: the
\* dialogs have no owner (dialog.Show(None)), so the main window stays enabled.
DialogDispatch(message) ==
    /\ At("dialog")
    /\ OpenDialogs <= MaxReentry
    /\ ui_stack' = Append(ui_stack, Frame(message, 1))
    /\ UNCHANGED <<held, ui_blocked, CURRENT_FILE, STATUSBAR_VISIBLE>>
    /\ LockFrame

\* The dialog returns Some(..) when confirmed, None when cancelled.
DialogReturn(confirmed) ==
    /\ At("dialog")
    /\ ui_stack' = IF confirmed THEN Advance ELSE Goto(Instr.to)
    /\ UNCHANGED <<held, ui_blocked, CURRENT_FILE, STATUSBAR_VISIBLE>>
    /\ LockFrame

Either(taken) ==
    /\ At("either")
    /\ ui_stack' = IF taken THEN Advance ELSE Goto(Instr.to)
    /\ UNCHANGED <<held, ui_blocked, CURRENT_FILE, STATUSBAR_VISIBLE>>
    /\ LockFrame

IfUntitled ==
    /\ At("if_untitled")
    /\ ui_stack' = IF is_untitled_file(CURRENT_FILE) THEN Advance ELSE Goto(Instr.to)
    /\ UNCHANGED <<held, ui_blocked, CURRENT_FILE, STATUSBAR_VISIBLE>>
    /\ LockFrame

IfVisible ==
    /\ At("if_visible")
    /\ ui_stack' = IF STATUSBAR_VISIBLE THEN Advance ELSE Goto(Instr.to)
    /\ UNCHANGED <<held, ui_blocked, CURRENT_FILE, STATUSBAR_VISIBLE>>
    /\ LockFrame

Jump ==
    /\ At("jump")
    /\ ui_stack' = Goto(Instr.to)
    /\ UNCHANGED <<held, ui_blocked, CURRENT_FILE, STATUSBAR_VISIBLE>>
    /\ LockFrame

\* `*current_file = Some(path)`.
Store ==
    /\ At("store")
    /\ CURRENT_FILE' = Instr.arg
    /\ ui_stack' = Advance
    /\ UNCHANGED <<held, ui_blocked, STATUSBAR_VISIBLE>>
    /\ LockFrame

\* `*visible = !*visible`.
Toggle ==
    /\ At("toggle")
    /\ STATUSBAR_VISIBLE' = ~STATUSBAR_VISIBLE
    /\ ui_stack' = Advance
    /\ UNCHANGED <<held, ui_blocked, CURRENT_FILE>>
    /\ LockFrame

NextLock ==
    \/ EnterLoop
    \/ \E message \in LoopKeys \cup WindowMessages : GetMessage(message)
    \/ Lock
    \/ Release
    \/ Call
    \/ Return
    \/ \E notify \in BOOLEAN : EditMessage(notify)
    \/ \E message \in WindowMessages : DialogDispatch(message)
    \/ \E confirmed \in BOOLEAN : DialogReturn(confirmed)
    \/ \E taken \in BOOLEAN : Either(taken)
    \/ IfUntitled
    \/ IfVisible
    \/ Jump
    \/ Store
    \/ Toggle

SpecLock == InitStatus /\ [][NextLock]_vars

\* C30: the UI thread never locks a mutex whose guard it holds, and when a
\* dialog runs its modal loop (the dialogs of File->Save and Ctrl+S on an
\* untitled document among them) the thread holds no guard, on CURRENT_FILE
\* or any other mutex, so the handlers the loop dispatches and the store of
\* the new path find every mutex free.
C30_NoSelfLock ==
    /\ ~ui_blocked
    /\ At("dialog") => held = {}

\* Ctrl+S on an untitled document has its dialog open, File->Save chosen from
\* the menu meanwhile has stored its path under the CURRENT_FILE guard.
C30_Witness ==
    /\ Len(ui_stack) = 3
    /\ ui_stack[2].handler = "CtrlS" /\ AtDialog(ui_stack[2])
    /\ ui_stack[3].handler = "ID_FILE_SAVE"
    /\ held = {"CURRENT_FILE"}
    /\ CURRENT_FILE = DialogPath
    /\ ~ui_blocked

====
